---- MODULE Spec2Model ----
(***************************************************************************)
(* HFT-Lite: the two-legged arbitrage executor (hft_engine/core/executor), *)
(* the capital ledger (hft_engine/core/account_state) and the opportunity  *)
(* gate of the monitor (hft_engine/monitor/arbitrage_monitor), with the    *)
(* two venues (Kalshi REST, IBKR) as nondeterministic environments.        *)
(*                                                                         *)
(* Money is counted in whole cents (the code uses exact Decimal dollars).  *)
(* Each executor task is an asyncio task: the code between two awaits is   *)
(* one atomic action; every await on a venue is a point where other tasks  *)
(* run and where the venue's order may change.                             *)
(***************************************************************************)
EXTENDS Integers, Sequences, FiniteSets, TLC

\* ---------------------------------------------------------------- bounds
\* max_capital_per_market of the execution configuration, in cents (scenario S4)
MaxCapitalPerMarket == 200
\* Initial cash balances (cents) the run may be started with, per venue.
BalanceLow == 100
BalanceHigh == 200
\* Ask prices (cents) of the opportunities fed to the gate (scenario S1).
KalshiPrice == 40
IbkrPrice == 43

\* Calls made on the account in one run of the ledger specification.
MaxLedgerCalls == 4
\* max_stale_seconds of the execution configuration, the seconds a run of the
\* monitor specification lasts, and the opportunities its detector finds.
MaxStaleSeconds == 1
MaxClock == 3
MaxDetected == 2
\* The largest quantity taker_fee is called with in the fee specification.
MaxFeeQuantity == 8
\* The largest max_size a queue is built with, and the puts made on it in one
\* run of the queue specification.
MaxQueueSize == 3
MaxPuts == 5
\* The same two bounds for the runs of the queue under BLOCK with the event
\* loop's scheduling.
MaxBlockSize == 2
MaxBlockPuts == 4
MaxBookUpdates == 4
MaxIbkrMessages == 4

\* ------------------------------------------------------ program constants
MaxContractsPerEvent == 100
HedgePriceCents == 99
SlippageBufferCents == 1
IbkrFeeCents == 1
KalshiFeeRatePct == 7
MinNetProfit == 0

\* The executor tasks the gate may spawn in one run, in the order it creates them.
Execs == {1, 2}
\* The opportunities the detector feeds the gate: (symbol, side to buy on Kalshi).
Opportunities == {<<"EVT1", "YES">>, <<"EVT2", "NO">>}
\* The (Kalshi, IBKR) balances a run may start with: enough for two executions
\* on both venues, or for one only on one of them.
InitialBalances == {<<BalanceHigh, BalanceHigh>>, <<BalanceLow, BalanceHigh>>,
                    <<BalanceHigh, BalanceLow>>}
Venues == {"KALSHI", "IBKR"}
Symbols == {"EVT1", "EVT2"}
Sides == {"YES", "NO"}
Keys == Symbols \X Sides

Opposite(side) == IF side = "YES" THEN "NO" ELSE "YES"

VARIABLES
    capital,   \* CapitalManager: venue -> AccountState
    task,      \* executor task -> its position in execute() and its ExecutionResult
    venue,     \* executor task -> the orders it has at the two venues (environment)
    ghost,     \* executor task -> the ledger changes its own steps have made
    running,   \* ArbitrageMonitor._running / the event loop is alive
    ledger,    \* one AccountState driven call by call, with its last call
    clock,         \* time.time_ns(), in seconds
    config,        \* ExecutionConfig: mode (min_net_profit and the limits are fixed)
    kalshi_cache,  \* ArbitrageMonitor._kalshi_cache[symbol]
    ibkr_partial,  \* ArbitrageMonitor._ibkr_partials[symbol]
    book,          \* CentralOrderBook._books[symbol]
    stats,         \* _opportunities_detected, _valid, _stale
    emitted,       \* what _handle_opportunity handed on with create_task, in order
    handled,       \* the last opportunity _handle_opportunity was called with
    detection,     \* one call of ArbitrageDetector.detect: its inputs and its result
    fee_call,      \* one call of KalshiFeeSchedule.taker_fee: its inputs and its result
    queue,         \* a BoundedEventQueue: asyncio.Queue, asyncio.Lock and the counters
    proc,          \* producer or consumer task -> its position in put / get
    qlog,          \* the items put, accepted, returned, dropped to the hook, rejected
    books,         \* CentralOrderBook._books: symbol -> SymbolBook
    book_call,     \* the last call of CentralOrderBook.update: its tick and what it did
    partials,      \* ArbitrageMonitor._ibkr_partials: symbol -> IBKRPartialTick
    ibkr_call,     \* the last message _process_ibkr handled, and what it did with it
    subscribers,   \* EventBus._subscribers: channel -> list of callbacks
    publisher,     \* the task calling EventBus.publish: its position in the loop
    bus_calls      \* how many subscribe, unsubscribe and publish calls were made

\* The feeds, book, detector and gate of the monitor.
\* The bounded event queue and the tasks that use it.
queueVars == <<queue, proc, qlog>>

\* The central order book of every symbol.
bookVars == <<books, book_call>>

\* The IBKR feed's partial ticks of every symbol.
feedVars == <<partials, ibkr_call>>

\* The event bus and the task that publishes on it.
busVars == <<subscribers, publisher, bus_calls>>

monitorVars == <<clock, config, kalshi_cache, ibkr_partial, book, stats, emitted, handled>>

\* The variables of the other specifications of this module, which the executor
\* specification leaves alone.
besideExecutor == <<ledger, monitorVars, detection, fee_call, queueVars,
    bookVars, feedVars, busVars>>

vars == <<capital, task, venue, ghost, running, ledger, monitorVars, detection, fee_call, queueVars,
    bookVars, feedVars, busVars>>

\* ------------------------------------------------------------ the ledger
\* (mutant) can_afford that wants more than the amount
CanAffordStrict(acct, amount) == acct.cash_available > amount

\* AccountState.can_afford
CanAfford(acct, amount) == acct.cash_available >= amount

\* (mutant) reserve without the can_afford check
ReserveUnchecked(acct, amount) ==
    [ok |-> TRUE,
     acct |-> [acct EXCEPT !.cash_available = @ - amount,
                           !.cash_reserved = @ + amount]]

\* AccountState.reserve: what it returns, and the account afterwards
Reserve(acct, amount) ==
    IF ~CanAfford(acct, amount) THEN [ok |-> FALSE, acct |-> acct]
    ELSE [ok |-> TRUE,
          acct |-> [acct EXCEPT !.cash_available = @ - amount,
                                !.cash_reserved = @ + amount]]

\* (mutant) release that forgets to give the cash back
ReleaseNoCredit(acct, amount) ==
    [acct EXCEPT !.cash_reserved = @ - amount]

\* AccountState.release
Release(acct, amount) ==
    [acct EXCEPT !.cash_reserved = @ - amount,
                 !.cash_available = @ + amount]

\* (mutant) confirm_spend that leaves the amount reserved
ConfirmSpendNoDebit(acct, amount) == acct

\* AccountState.confirm_spend
ConfirmSpend(acct, amount) ==
    [acct EXCEPT !.cash_reserved = @ - amount]

\* AccountState.add_position (the quantity of the position; avg_cost is not modelled)
AddPosition(acct, symbol, side, quantity) ==
    [acct EXCEPT !.positions[<<symbol, side>>] = @ + quantity]

\* AccountState.get_position_quantity
GetPositionQuantity(acct, symbol, side) == acct.positions[<<symbol, side>>]

\* ------------------------------------------------------------ fee model
\* KalshiFeeSchedule.taker_fee, in cents: rate * quantity * p * (1 - p) dollars,
\* quantized to the cent with ROUND_UP (away from zero).
TakerFeeRoundDown(price, quantity) ==
    (KalshiFeeRatePct * quantity * price * (100 - price)) \div 10000

TakerFee(price, quantity) ==
    LET n == KalshiFeeRatePct * quantity * price * (100 - price)
    IN IF n >= 0 THEN (n + 9999) \div 10000 ELSE 0 - ((9999 - n) \div 10000)

\* IBKRFeeSchedule.fee
IbkrFee(contracts) == IbkrFeeCents * contracts

Min2(a, b) == IF a <= b THEN a ELSE b
Max2(a, b) == IF a >= b THEN a ELSE b

\* ------------------------------------------------------ sizing and gate
\* CapitalManager.calculate_max_quantity (prices > 0: int() of a non-negative
\* quotient is its floor)
CalculateMaxQuantity(cap, symbol, kalshi_side, kalshi_price, ibkr_side, ibkr_price) ==
    LET max_by_capital == MaxCapitalPerMarket \div (kalshi_price + ibkr_price)
        kalshi_pos == GetPositionQuantity(cap["KALSHI"], symbol, kalshi_side)
        ibkr_pos == GetPositionQuantity(cap["IBKR"], symbol, ibkr_side)
        max_by_position == Min2(MaxContractsPerEvent - kalshi_pos,
                                MaxContractsPerEvent - ibkr_pos)
        max_by_kalshi_cash == cap["KALSHI"].cash_available \div kalshi_price
        max_by_ibkr_cash == cap["IBKR"].cash_available \div ibkr_price
    IN Max2(0, Min2(Min2(max_by_capital, max_by_position),
                    Min2(max_by_kalshi_cash, max_by_ibkr_cash)))

\* CapitalManager.validate_opportunity: is_valid
ValidateOpportunity(cap, symbol, kalshi_side, kalshi_price, ibkr_side, ibkr_price, quantity) ==
    /\ ~((kalshi_price + ibkr_price) * quantity > MaxCapitalPerMarket)
    /\ ~(GetPositionQuantity(cap["KALSHI"], symbol, kalshi_side) + quantity
            > MaxContractsPerEvent)
    /\ ~(GetPositionQuantity(cap["IBKR"], symbol, ibkr_side) + quantity
            > MaxContractsPerEvent)
    /\ CanAfford(cap["KALSHI"], kalshi_price * quantity)
    /\ CanAfford(cap["IBKR"], ibkr_price * quantity)

\* ArbitrageMonitor._scale_opportunity: net_profit at the sized quantity
ScaledNetProfit(kalshi_price, ibkr_price, quantity) ==
    (100 - kalshi_price - ibkr_price) * quantity
        - (TakerFee(kalshi_price, quantity) + IbkrFee(quantity))
        - SlippageBufferCents * quantity

\* CapitalManager.calculate_max_quantity raises (decimal.DivisionByZero or
\* InvalidOperation, both trapped by the default context) when it divides by a
\* zero price: line 150 by the pair's cost, lines 161-162 by each leg's price.
CalculateMaxQuantityRaises(kalshi_price, ibkr_price) ==
    \/ kalshi_price + ibkr_price = 0
    \/ kalshi_price = 0
    \/ ibkr_price = 0

\* --------------------------------------------------------------- detector
\* detect / _check_opportunity returning None
NoOpportunity ==
    [found |-> FALSE, symbol |-> "none", kalshi_side |-> "none", kalshi_price |-> 0,
     ibkr_side |-> "none", ibkr_price |-> 0, quantity |-> 0, total_cost |-> 0,
     gross_profit |-> 0, kalshi_fee |-> 0, ibkr_fee |-> 0, total_fees |-> 0,
     slippage_buffer |-> 0, net_profit |-> 0]

\* ArbitrageOpportunity(...) as _check_opportunity and _scale_opportunity build
\* it: the amounts at `quantity`; the quantity field is not passed and keeps its
\* default (arbitrage.py line 48).
Opportunity(symbol, kalshi_side, kalshi_price, ibkr_side, ibkr_price, quantity) ==
    [found |-> TRUE, symbol |-> symbol,
     kalshi_side |-> kalshi_side, kalshi_price |-> kalshi_price,
     ibkr_side |-> ibkr_side, ibkr_price |-> ibkr_price,
     quantity |-> 1,
     total_cost |-> (kalshi_price + ibkr_price) * quantity,
     gross_profit |-> (100 - kalshi_price - ibkr_price) * quantity,
     kalshi_fee |-> TakerFee(kalshi_price, quantity),
     ibkr_fee |-> IbkrFee(quantity),
     total_fees |-> TakerFee(kalshi_price, quantity) + IbkrFee(quantity),
     slippage_buffer |-> SlippageBufferCents * quantity,
     net_profit |-> ScaledNetProfit(kalshi_price, ibkr_price, quantity)]

\* (mutant) _check_opportunity without the parity rejection
CheckOpportunityNoParity(symbol, kalshi_price, kalshi_side, ibkr_price, ibkr_side, min_profit) ==
    IF ScaledNetProfit(kalshi_price, ibkr_price, 1) < min_profit THEN NoOpportunity
    ELSE Opportunity(symbol, kalshi_side, kalshi_price, ibkr_side, ibkr_price, 1)

\* (mutant) _check_opportunity without the min_profit rejection
CheckOpportunityNoMinProfit(symbol, kalshi_price, kalshi_side, ibkr_price, ibkr_side, min_profit) ==
    IF kalshi_price + ibkr_price >= 100 THEN NoOpportunity
    ELSE Opportunity(symbol, kalshi_side, kalshi_price, ibkr_side, ibkr_price, 1)

\* ArbitrageDetector._check_opportunity at its default quantity of 1
CheckOpportunity(symbol, kalshi_price, kalshi_side, ibkr_price, ibkr_side, min_profit) ==
    IF kalshi_price + ibkr_price >= 100 THEN NoOpportunity
    ELSE IF ScaledNetProfit(kalshi_price, ibkr_price, 1) < min_profit THEN NoOpportunity
    ELSE Opportunity(symbol, kalshi_side, kalshi_price, ibkr_side, ibkr_price, 1)

\* (mutant) detect returning the first pairing whenever it survives
DetectFirstFound(kalshi_tick, ibkr_tick, min_profit) ==
    IF kalshi_tick.symbol # ibkr_tick.symbol THEN NoOpportunity
    ELSE LET opp1 == CheckOpportunity(kalshi_tick.symbol, kalshi_tick.yes_ask, "YES",
                                      ibkr_tick.no_ask, "NO", min_profit)
             opp2 == CheckOpportunity(kalshi_tick.symbol, kalshi_tick.no_ask, "NO",
                                      ibkr_tick.yes_ask, "YES", min_profit)
         IN IF opp1.found THEN opp1 ELSE opp2

\* ArbitrageDetector.detect
Detect(kalshi_tick, ibkr_tick, min_profit) ==
    IF kalshi_tick.symbol # ibkr_tick.symbol THEN NoOpportunity
    ELSE LET opp1 == CheckOpportunity(kalshi_tick.symbol, kalshi_tick.yes_ask, "YES",
                                      ibkr_tick.no_ask, "NO", min_profit)
             opp2 == CheckOpportunity(kalshi_tick.symbol, kalshi_tick.no_ask, "NO",
                                      ibkr_tick.yes_ask, "YES", min_profit)
         IN IF opp1.found /\ opp2.found
            THEN (IF opp1.net_profit > opp2.net_profit THEN opp1 ELSE opp2)
            ELSE IF opp1.found THEN opp1 ELSE opp2

\* ------------------------------------------------------------------ gate
\* ArbitrageMonitor._scale_opportunity
ScaleOpportunity(opp, quantity) ==
    Opportunity(opp.symbol, opp.kalshi_side, opp.kalshi_price,
                opp.ibkr_side, opp.ibkr_price, quantity)

\* (mutant) the check after rescaling lets a net profit of zero through
NotProfitableStrict(scaled_opp) == scaled_opp.net_profit < 0

\* ArbitrageMonitor._handle_opportunity line 196
NotProfitable(scaled_opp) == scaled_opp.net_profit <= 0

\* ArbitrageMonitor._handle_opportunity lines 153-199, given what the two
\* is_stale calls answer: where it leaves (stale: lines 159-165; exception: out of
\* calculate_max_quantity; no_quantity: line 177; invalid: line 190;
\* unprofitable: line 197; valid: it goes on to line 199), with max_qty and the
\* scaled opportunity where it got that far.
GateOutcome(cap, opp, kalshi_stale, ibkr_stale) ==
    LET left(verdict, max_qty, scaled) ==
            [verdict |-> verdict, max_qty |-> max_qty, scaled |-> scaled]
    IN IF kalshi_stale \/ ibkr_stale THEN left("stale", 0, NoOpportunity)
       ELSE IF CalculateMaxQuantityRaises(opp.kalshi_price, opp.ibkr_price)
       THEN left("exception", 0, NoOpportunity)
       ELSE LET max_qty == CalculateMaxQuantity(cap, opp.symbol, opp.kalshi_side,
                                                opp.kalshi_price, opp.ibkr_side,
                                                opp.ibkr_price)
                scaled_opp == ScaleOpportunity(opp, max_qty)
            IN IF max_qty <= 0 THEN left("no_quantity", max_qty, NoOpportunity)
               ELSE IF ~ValidateOpportunity(cap, opp.symbol, opp.kalshi_side,
                                            opp.kalshi_price, opp.ibkr_side,
                                            opp.ibkr_price, max_qty)
               THEN left("invalid", max_qty, NoOpportunity)
               ELSE IF NotProfitable(scaled_opp)
               THEN left("unprofitable", max_qty, scaled_opp)
               ELSE left("valid", max_qty, scaled_opp)

\* ------------------------------------------------------------ the state
NoOrder == [side |-> "none", count |-> 0, price |-> 0]

\* ExecutionResult(success=False, ...) and the task's place in execute()
IdleTask ==
    [pc |-> "idle", symbol |-> "none", kalshi_side |-> "none", quantity |-> 0,
     kalshi_filled |-> FALSE, kalshi_fill_quantity |-> 0,
     ibkr_filled |-> FALSE, ibkr_fill_quantity |-> 0,
     success |-> FALSE, rolled_back |-> FALSE,
     error |-> "none", rollback_details |-> "none",
     \* locals of the running task (cleared once dead): the fill count last
     \* polled, and the error of _execute_ibkr's result
     seen |-> 0, ibkr_error |-> "none", cancelled_at |-> "none"]

\* The orders of one execution as the venues hold them.
NoVenue ==
    [kReq |-> NoOrder, kStatus |-> "none", kFill |-> 0,
     iReq |-> 0, iStatus |-> "none", iFill |-> 0,
     hReq |-> NoOrder, hStatus |-> "none", hFill |-> 0, hPlaced |-> 0]

NoGhost ==
    [held |-> [v \in Venues |-> 0],
     spent |-> [v \in Venues |-> 0],
     posAdded |-> [v \in Venues |-> 0]]

IbkrSide(t) == Opposite(t.kalshi_side)
KalshiCost(t) == KalshiPrice * t.quantity
IbkrCost(t) == IbkrPrice * t.quantity
SideOn(t, v) == IF v = "KALSHI" THEN t.kalshi_side ELSE IbkrSide(t)

\* AccountState(exchange) with cash_available set, as set_balances leaves it
NewAccount(cash) ==
    [cash_available |-> cash, cash_reserved |-> 0, positions |-> [k \in Keys |-> 0]]

\* The ledger variable where no call has been made on it: the account, the last
\* call (its name, amount, return value, the account before it), the number of
\* calls, and the cash the account started with and has confirmed spent.
NoLedger ==
    [acct |-> NewAccount(0), op |-> "none", amount |-> 0, ok |-> TRUE,
     before |-> NewAccount(0), calls |-> 0, initial |-> 0, confirmed |-> 0]

\* A book slot, cache or half that holds nothing (None)
NoTick == [symbol |-> "none", yes_ask |-> -1, no_ask |-> -1, timestamp_local |-> 0]
NoAsk == -1

\* NormalizedTick (the fields the detector and the staleness claims read)
Tick(symbol, yes_ask, no_ask, timestamp_local) ==
    [symbol |-> symbol, yes_ask |-> yes_ask, no_ask |-> no_ask,
     timestamp_local |-> timestamp_local]

\* The monitor as ArbitrageMonitor.__init__ leaves it: empty caches and book,
\* counters at zero.
NoCache == [present |-> FALSE, timestamp_ns |-> 0]
NoPartial == [present |-> FALSE, yes_ask |-> NoAsk, no_ask |-> NoAsk, timestamp_ns |-> 0]
NoBook == [kalshi |-> NoTick, ibkr |-> NoTick]
NoStats == [detected |-> 0, valid |-> 0, stale |-> 0]
NoHandled ==
    [called |-> FALSE, opp |-> NoOpportunity, verdict |-> "none", max_qty |-> 0,
     kalshi_received |-> 0, ibkr_received |-> 0, at |-> 0,
     stats_before |-> NoStats, emitted_before |-> 0]

\* No call of detect has been made.
NoDetection ==
    [kalshi_tick |-> NoTick, ibkr_tick |-> NoTick, min_profit |-> 0,
     called |-> FALSE, result |-> NoOpportunity]

\* The tasks that use the bounded event queue (core/event_bus.py).
Producers == {"p1", "p2", "p3"}
Consumers == {"c1"}
Tasks == Producers \cup Consumers

\* BoundedEventQueue.__init__
NewQueue(max_size, policy, overflow_callback) ==
    [max_size |-> max_size, policy |-> policy, overflow_callback |-> overflow_callback,
     items |-> <<>>, putters |-> <<>>, getters |-> <<>>,
     locked |-> FALSE, lock_waiters |-> <<>>,
     total_enqueued |-> 0, total_dequeued |-> 0, total_dropped |-> 0]

\* A task that is in no call of the queue: ret is what its last call returned
\* or raised; item and timeout are the arguments of the put it is in.
IdleProc == [pc |-> "idle", item |-> 0, timeout |-> FALSE, ret |-> "none"]

\* What has gone through the queue: the items in the order put_nowait took
\* them, the items in the order get / get_nowait returned them, the items given
\* to the overflow callback, and the items whose put returned False or raised.
NoQueueLog == [next_item |-> 1, accepted |-> <<>>, returned |-> <<>>,
               hooked |-> <<>>, rejected |-> {}]

\* NormalizedTick with the venue it came from
VenueTick(exchange, symbol, yes_ask, no_ask, timestamp_local) ==
    [exchange |-> exchange, symbol |-> symbol, yes_ask |-> yes_ask, no_ask |-> no_ask,
     timestamp_local |-> timestamp_local]

\* CentralOrderBook.__init__: no symbol has a book yet (a symbol without a book
\* reads as the empty SymbolBook that update would create for it)
NoBooks == [s \in Symbols |-> NoBook]

\* No call of update has been made.
NoBookCall ==
    [called |-> FALSE, tick |-> NoTick, before |-> NoBooks, detected |-> FALSE,
     pair |-> <<NoTick, NoTick>>, opportunity |-> NoOpportunity, updates |-> 0]

BooksUnused == books = NoBooks /\ book_call = NoBookCall

\* IBKRPartialTick()
NewPartialTick ==
    [yes_ask |-> NoAsk, yes_ask_size |-> 0, no_ask |-> NoAsk, no_ask_size |-> 0,
     timestamp_ns |-> 0]

\* self._ibkr_partials = {}: a symbol without an entry reads as the
\* IBKRPartialTick() that _process_ibkr would create for it
NoPartials == [s \in Symbols |-> NewPartialTick]

\* No message of the IBKR stream has been handled.
NoIbkrCall ==
    [called |-> FALSE, symbol |-> "none", side |-> "none", ask |-> 0, ask_size |-> 0,
     before |-> NoPartials, emitted |-> NoTick, raised |-> FALSE, messages |-> 0]

FeedUnused == partials = NoPartials /\ ibkr_call = NoIbkrCall

\* EventBus(): no channel has subscribers; nobody is publishing.
NoPublish ==
    [pc |-> "idle", channel |-> "none", event |-> 0, view |-> <<>>, live |-> FALSE,
     index |-> 0, at_call |-> <<>>, added |-> <<>>, barred |-> {},
     delivered |-> <<>>, outcome |-> "none"]
NoBusCalls == [subscribe |-> 0, unsubscribe |-> 0, publish |-> 0, removed |-> {}]
Channels == {"ch1", "ch2"}

BusUnused ==
    /\ subscribers = [ch \in Channels |-> <<>>]
    /\ publisher = NoPublish
    /\ bus_calls = NoBusCalls

QueueUnused ==
    /\ queue = NewQueue(1, "DROP_OLDEST", "none")
    /\ proc = [t \in Tasks |-> IdleProc]
    /\ qlog = NoQueueLog

\* No call of taker_fee has been made.
NoFeeCall == [price |-> 50, quantity |-> 1, called |-> FALSE, fee |-> 0]

MonitorUnused ==
    /\ clock = 1
    /\ config = [mode |-> "live"]
    /\ kalshi_cache = NoCache
    /\ ibkr_partial = NoPartial
    /\ book = NoBook
    /\ stats = NoStats
    /\ emitted = <<>>
    /\ handled = NoHandled

\* CapitalManager() followed by set_balances(initial_kalshi, initial_ibkr)
Init ==
    /\ \E b \in InitialBalances :
         capital = [v \in Venues |->
                      [cash_available |-> IF v = "KALSHI" THEN b[1] ELSE b[2],
                       cash_reserved |-> 0,
                       positions |-> [k \in Keys |-> 0]]]
    /\ task = [e \in Execs |-> IdleTask]
    /\ venue = [e \in Execs |-> NoVenue]
    /\ ghost = [e \in Execs |-> NoGhost]
    /\ running = TRUE
    /\ ledger = NoLedger
    /\ MonitorUnused
    /\ detection = NoDetection
    /\ fee_call = NoFeeCall
    /\ QueueUnused
    /\ BooksUnused
    /\ FeedUnused
    /\ BusUnused

\* One step of task e: its new record, the ledger and its venue orders afterwards.
\* ghost attributes to e the ledger changes this step made.
Commit(e, t, cap, vn) ==
    /\ task' = [task EXCEPT ![e] = t]
    /\ capital' = cap
    /\ venue' = [venue EXCEPT ![e] = vn]
    /\ ghost' = [ghost EXCEPT ![e] =
         [held |-> [v \in Venues |->
                      @.held[v] + cap[v].cash_reserved - capital[v].cash_reserved],
          spent |-> [v \in Venues |->
                      @.spent[v] + capital[v].cash_available - cap[v].cash_available],
          posAdded |-> [v \in Venues |->
                      @.posAdded[v] + cap[v].positions[<<t.symbol, SideOn(t, v)>>]
                                    - capital[v].positions[<<t.symbol, SideOn(t, v)>>]]]]
    /\ UNCHANGED <<running, besideExecutor>>

\* ------------------------------------------------ orders as the code reads them
\* KalshiOrder.from_response of the venue's order: a cancelled or executed order
\* has its remaining count zeroed by the venue.
KalshiOrderView(count, status, fill) ==
    [status |-> status, fill_count |-> fill,
     remaining_count |-> IF status = "resting" THEN count - fill ELSE 0]

\* KalshiOrder.is_filled
KalshiIsFilled(order) == order.remaining_count = 0 /\ order.fill_count > 0

\* KalshiOrder.is_open
KalshiIsOpen(order) == order.status = "resting" \/ order.remaining_count > 0

\* IBKROrder.is_filled
IbkrIsFilled(status) == status = "Filled"

\* IBKROrder.is_open
IbkrIsOpen(status) == status \in {"PendingSubmit", "Submitted"}

\* ------------------------------------------------------ venue environment
\* What a resting Kalshi order of `count` contracts with `fill` filled may have
\* become by the next time the venue answers: more fills, executed when complete,
\* or closed by the venue (cancelled, expired) with what it had filled.
KalshiEvolutions(count, status, fill) ==
    IF status # "resting" THEN {[status |-> status, fill |-> fill]}
    ELSE {[status |-> IF f = count THEN "executed" ELSE st, fill |-> f] :
             f \in fill..count, st \in {"resting", "canceled"}}

\* The same for an IBKR trade: Filled when complete, else still working,
\* cancelled, or (with nothing filled) rejected as Inactive.
IbkrEvolutions(count, status, fill) ==
    IF status # "Submitted" THEN {[status |-> status, fill |-> fill]}
    ELSE {[status |-> IF f = count THEN "Filled" ELSE st, fill |-> f] :
             f \in fill..count, st \in {"Submitted", "Cancelled"}}
         \cup (IF fill = 0 THEN {[status |-> "Inactive", fill |-> 0]} ELSE {})

\* ------------------------------------------------------ execute(), by phase
\* One outcome of a step: the task, the ledger and the venue orders afterwards.
Outcome(t, cap, vn) == [t |-> t, cap |-> cap, vn |-> vn]

\* execute lines 144-154: leg A came back not filled
KalshiNotFilled(t, cap, vn, err, fill_quantity) ==
    Outcome([t EXCEPT !.pc = "returned", !.kalshi_filled = FALSE,
                      !.kalshi_fill_quantity = fill_quantity, !.error = err,
                      !.seen = 0],
            [cap EXCEPT !["KALSHI"] = Release(@, KalshiCost(t)),
                        !["IBKR"] = Release(@, IbkrCost(t))],
            vn)

\* (mutant) a hedge that buys the side leg A bought
HedgeOrderSameSide(side, quantity) ==
    [side |-> side, count |-> quantity, price |-> HedgePriceCents]

\* _rollback_kalshi lines 332-341: the hedge order that is submitted
HedgeOrder(side, quantity) ==
    [side |-> Opposite(side), count |-> quantity, price |-> HedgePriceCents]

\* execute lines 163-176: leg B came back not filled; its reservation is released
\* and the rollback submits the hedge order
IbkrNotFilled(t, cap, vn, err, fill_quantity) ==
    Outcome([t EXCEPT !.pc = "hPlace", !.ibkr_filled = FALSE,
                      !.ibkr_fill_quantity = fill_quantity, !.ibkr_error = err,
                      !.seen = 0],
            [cap EXCEPT !["IBKR"] = Release(@, IbkrCost(t))],
            [vn EXCEPT !.hReq = HedgeOrder(t.kalshi_side, t.kalshi_fill_quantity),
                       !.hPlaced = @ + 1])

\* execute line 159: the quantity of the leg-B order
LegBQuantity(t, kalshi_fill_quantity) == t.quantity

\* execute lines 144-161 with _execute_ibkr lines 284-289: leg A came back filled,
\* the leg-B order is placed (placeOrder may raise)
KalshiFilled(t, cap, vn, fill_quantity, placed) ==
    LET t1 == [t EXCEPT !.kalshi_filled = TRUE, !.kalshi_fill_quantity = fill_quantity,
                        !.seen = 0]
    IN IF placed
       THEN Outcome([t1 EXCEPT !.pc = "iWait"], cap,
                    [vn EXCEPT !.iReq = LegBQuantity(t, fill_quantity),
                               !.iStatus = "Submitted"])
       ELSE IbkrNotFilled(t1, cap, vn, "exception", 0)

\* execute lines 163-213: leg B came back filled. Nothing here raises into the
\* handler of line 215: add_position divides by the fill quantity, which is
\* positive for a Kalshi order that is_filled and for an IBKR trade reported
\* Filled.
IbkrFilled(t, cap, vn, fill_quantity) ==
    Outcome([t EXCEPT !.pc = "returned", !.ibkr_filled = TRUE,
                      !.ibkr_fill_quantity = fill_quantity, !.success = TRUE,
                      !.seen = 0],
            [cap EXCEPT
               !["KALSHI"] = AddPosition(ConfirmSpend(@, KalshiCost(t)),
                                         t.symbol, t.kalshi_side, t.kalshi_fill_quantity),
               !["IBKR"] = AddPosition(ConfirmSpend(@, IbkrCost(t)),
                                       t.symbol, IbkrSide(t), fill_quantity)],
            vn)

\* (mutant) a rollback that reports every hedge as filled
RolledBackAsHedged(t, cap, vn, details) ==
    Outcome([t EXCEPT !.pc = "returned", !.rolled_back = TRUE,
                      !.rollback_details = "hedged", !.error = t.ibkr_error,
                      !.ibkr_error = "none"],
            cap, vn)

\* execute lines 178-181: the rollback came back
RolledBack(t, cap, vn, details) ==
    Outcome([t EXCEPT !.pc = "returned", !.rolled_back = TRUE,
                      !.rollback_details = details, !.error = t.ibkr_error,
                      !.ibkr_error = "none"],
            cap, vn)

Do(e, o) == Commit(e, o.t, o.cap, o.vn)

InFlight == {"kPlace", "kPoll", "kCancel", "iWait", "iCancel", "hPlace", "hGet"}

\* ------------------------------------------------------------- the actions
\* ArbitrageMonitor._handle_opportunity (live mode, fresh ticks): size the
\* opportunity against the ledger as it is now and spawn the executor task.
\* Tasks are numbered in the order they are created.
HandleOpportunity(e, symbol, kalshi_side) ==
    /\ running
    /\ task[e].pc = "idle"
    /\ \A d \in Execs : d < e => task[d].pc # "idle"
    /\ LET opp == CheckOpportunity(symbol, KalshiPrice, kalshi_side,
                                   IbkrPrice, Opposite(kalshi_side), MinNetProfit)
           gate == GateOutcome(capital, opp, FALSE, FALSE)
       IN /\ opp.found
          /\ gate.verdict = "valid"
          /\ task' = [task EXCEPT ![e] =
                        [@ EXCEPT !.pc = "spawned", !.symbol = symbol,
                                  !.kalshi_side = kalshi_side,
                                  !.quantity = gate.max_qty]]
    /\ UNCHANGED <<capital, venue, ghost, running, besideExecutor>>

\* (mutant) the Kalshi reservation is kept when the IBKR reserve fails
ReserveBothNoRelease(t, cap, vn) ==
    LET k == Reserve(cap["KALSHI"], KalshiCost(t))
        i == Reserve(cap["IBKR"], IbkrCost(t))
    IN IF ~k.ok
       THEN Outcome([t EXCEPT !.pc = "returned", !.error = "InsufficientKalshi"], cap, vn)
       ELSE IF ~i.ok
       THEN Outcome([t EXCEPT !.pc = "returned", !.error = "InsufficientIBKR"],
                    [cap EXCEPT !["KALSHI"] = k.acct], vn)
       ELSE Outcome([t EXCEPT !.pc = "kPlace"],
                    [cap EXCEPT !["KALSHI"] = k.acct, !["IBKR"] = i.acct],
                    [vn EXCEPT !.kReq = [side |-> t.kalshi_side,
                                         count |-> t.quantity,
                                         price |-> KalshiPrice]])

\* execute lines 120-142: both reservations and the leg-A order sent, or the
\* failed result
ReserveBoth(t, cap, vn) ==
    LET k == Reserve(cap["KALSHI"], KalshiCost(t))
        i == Reserve(cap["IBKR"], IbkrCost(t))
    IN IF ~k.ok
       THEN Outcome([t EXCEPT !.pc = "returned", !.error = "InsufficientKalshi"], cap, vn)
       ELSE IF ~i.ok
       THEN Outcome([t EXCEPT !.pc = "returned", !.error = "InsufficientIBKR"],
                    [cap EXCEPT !["KALSHI"] = Release(k.acct, KalshiCost(t))], vn)
       ELSE Outcome([t EXCEPT !.pc = "kPlace"],
                    [cap EXCEPT !["KALSHI"] = k.acct, !["IBKR"] = i.acct],
                    [vn EXCEPT !.kReq = [side |-> t.kalshi_side,
                                         count |-> t.quantity,
                                         price |-> KalshiPrice]])

\* (The gate only sees symbols of the mapping file, so by_unified at line 110
\* always finds the mapping.)
\* The task starts: execute lines 98-142 and _execute_kalshi up to the await of
\* place_order's HTTP request. The event loop starts tasks in the order they
\* were created.
Start(e) ==
    /\ task[e].pc = "spawned"
    /\ \A d \in Execs : d < e => task[d].pc # "spawned"
    /\ Do(e, ReserveBoth(task[e], capital, venue[e]))

\* _execute_kalshi lines 234-245: place_order answers (201, or it raises), and
\* the first get_order is sent.
KalshiPlaceResponse(e) ==
    /\ task[e].pc = "kPlace"
    /\ \/ Do(e, KalshiNotFilled(task[e], capital, venue[e], "exception", 0))
       \/ Do(e, Outcome([task[e] EXCEPT !.pc = "kPoll"], capital,
                        [venue[e] EXCEPT !.kStatus = "resting"]))

\* _execute_kalshi lines 244-262: get_order answers (or raises); the loop goes
\* round again after the sleep unless the deadline has passed, and then sends
\* the cancel.
KalshiPollResponse(e) ==
    /\ task[e].pc = "kPoll"
    /\ \E ev \in KalshiEvolutions(venue[e].kReq.count, venue[e].kStatus, venue[e].kFill) :
         LET vn == [venue[e] EXCEPT !.kStatus = ev.status, !.kFill = ev.fill]
             order == KalshiOrderView(vn.kReq.count, ev.status, ev.fill)
         IN \/ Do(e, KalshiNotFilled(task[e], capital, vn, "exception", 0))
            \/ /\ KalshiIsFilled(order)
               /\ \E placed \in BOOLEAN :
                    Do(e, KalshiFilled(task[e], capital, vn, order.fill_count, placed))
            \/ /\ ~KalshiIsFilled(order)
               /\ ~KalshiIsOpen(order)
               /\ Do(e, KalshiNotFilled(task[e], capital, vn, "closed", 0))
            \/ /\ ~KalshiIsFilled(order)
               /\ KalshiIsOpen(order)
               /\ \E deadline_passed \in BOOLEAN :
                    Do(e, Outcome([task[e] EXCEPT
                                     !.seen = order.fill_count,
                                     !.pc = IF deadline_passed THEN "kCancel" ELSE "kPoll"],
                                  capital, vn))

\* _execute_kalshi lines 264-275: cancel_order answers 200 for an order still
\* resting (the venue zeroes what remains), or it raises.
KalshiCancelResponse(e) ==
    /\ task[e].pc = "kCancel"
    /\ \E ev \in KalshiEvolutions(venue[e].kReq.count, venue[e].kStatus, venue[e].kFill) :
         LET vn == [venue[e] EXCEPT !.kStatus = ev.status, !.kFill = ev.fill]
         IN \/ /\ ev.status = "resting"
               /\ Do(e, KalshiNotFilled(task[e], capital,
                                        [vn EXCEPT !.kStatus = "canceled"],
                                        "timeout", task[e].seen))
            \/ Do(e, KalshiNotFilled(task[e], capital, vn, "exception", 0))

\* IBKRClient.wait_for_fill lines 247-259 and _execute_ibkr lines 298-315: one
\* look at the trade after a sleep; on the deadline an open order is cancelled.
IbkrWaitStep(e) ==
    /\ task[e].pc = "iWait"
    /\ \E ev \in IbkrEvolutions(venue[e].iReq, venue[e].iStatus, venue[e].iFill) :
         LET vn == [venue[e] EXCEPT !.iStatus = ev.status, !.iFill = ev.fill]
         IN \/ /\ IbkrIsFilled(ev.status)
               /\ Do(e, IbkrFilled(task[e], capital, vn, ev.fill))
            \/ /\ ~IbkrIsFilled(ev.status)
               /\ ~IbkrIsOpen(ev.status)
               /\ Do(e, IbkrNotFilled(task[e], capital, vn, "closed", ev.fill))
            \/ /\ ~IbkrIsFilled(ev.status)
               /\ IbkrIsOpen(ev.status)
               /\ \E deadline_passed \in BOOLEAN :
                    Do(e, Outcome([task[e] EXCEPT
                                     !.seen = ev.fill,
                                     !.pc = IF deadline_passed THEN "iCancel" ELSE "iWait"],
                                  capital, vn))

\* IBKRClient.cancel_order lines 197-206 and _execute_ibkr lines 310-315: the
\* cancel's sleep is over; the trade may have filled meanwhile, be cancelled, or
\* still be working. The code reports what it read before the cancel.
IbkrCancelDone(e) ==
    /\ task[e].pc = "iCancel"
    /\ \E f \in venue[e].iFill..venue[e].iReq, st \in {"Cancelled", "Submitted"} :
         LET vn == [venue[e] EXCEPT
                      !.iStatus = IF f = venue[e].iReq THEN "Filled" ELSE st,
                      !.iFill = f]
         IN Do(e, IbkrNotFilled(task[e], capital, vn, "open", task[e].seen))

\* _rollback_kalshi lines 336-345: the hedge's place_order answers (201, or it
\* raises); after the wait get_order is sent.
HedgePlaceResponse(e) ==
    /\ task[e].pc = "hPlace"
    /\ \/ Do(e, RolledBack(task[e], capital, venue[e], "manual"))
       \/ Do(e, Outcome([task[e] EXCEPT !.pc = "hGet"], capital,
                        [venue[e] EXCEPT !.hStatus = "resting"]))

\* _rollback_kalshi lines 345-362: the hedge's get_order answers (or raises)
HedgeGetResponse(e) ==
    /\ task[e].pc = "hGet"
    /\ \E ev \in KalshiEvolutions(venue[e].hReq.count, venue[e].hStatus, venue[e].hFill) :
         LET vn == [venue[e] EXCEPT !.hStatus = ev.status, !.hFill = ev.fill]
             order == KalshiOrderView(vn.hReq.count, ev.status, ev.fill)
         IN \/ Do(e, RolledBack(task[e], capital, vn, "manual"))
            \/ /\ KalshiIsFilled(order)
               /\ Do(e, RolledBack(task[e], capital, vn, "hedged"))
            \/ /\ ~KalshiIsFilled(order)
               /\ Do(e, RolledBack(task[e], capital, vn, "manual"))

\* The run ends (run_monitor.py line 156: asyncio.run cancels every task still
\* pending). CancelledError is raised at the await each executor task is
\* suspended on; it is a BaseException, so neither the inner handlers
\* (except Exception) nor execute's own (line 215) catch it.
Shutdown ==
    /\ running
    /\ running' = FALSE
    /\ task' = [e \in Execs |->
                  IF task[e].pc \in InFlight \cup {"spawned"}
                  THEN [task[e] EXCEPT !.pc = "cancelled", !.cancelled_at = task[e].pc]
                  ELSE task[e]]
    /\ UNCHANGED <<capital, venue, ghost, besideExecutor>>

Next ==
    \/ \E e \in Execs, opp \in Opportunities : HandleOpportunity(e, opp[1], opp[2])
    \/ \E e \in Execs : Start(e)
    \/ \E e \in Execs : KalshiPlaceResponse(e)
    \/ \E e \in Execs : KalshiPollResponse(e)
    \/ \E e \in Execs : KalshiCancelResponse(e)
    \/ \E e \in Execs : IbkrWaitStep(e)
    \/ \E e \in Execs : IbkrCancelDone(e)
    \/ \E e \in Execs : HedgePlaceResponse(e)
    \/ \E e \in Execs : HedgeGetResponse(e)
    \/ Shutdown

Spec == Init /\ [][Next]_vars

\* The executor when earlier executions of the run have left every position
\* HeldBelowLimit contracts short of max_contracts_per_event.
HeldBelowLimit == 2

LimitInit ==
    /\ \E b \in InitialBalances :
         capital = [v \in Venues |->
                      [cash_available |-> IF v = "KALSHI" THEN b[1] ELSE b[2],
                       cash_reserved |-> 0,
                       positions |-> [k \in Keys |-> MaxContractsPerEvent - HeldBelowLimit]]]
    /\ task = [e \in Execs |-> IdleTask]
    /\ venue = [e \in Execs |-> NoVenue]
    /\ ghost = [e \in Execs |-> NoGhost]
    /\ running = TRUE
    /\ ledger = NoLedger
    /\ MonitorUnused
    /\ detection = NoDetection
    /\ fee_call = NoFeeCall
    /\ QueueUnused
    /\ BooksUnused
    /\ FeedUnused
    /\ BusUnused

LimitSpec == LimitInit /\ [][Next]_vars

\* ==================================================== the ledger, call by call
\* One AccountState under any sequence of calls of its methods (the executor is
\* one caller; the methods themselves check nothing but can_afford in reserve).
\* The amounts are the costs the executor computes: a price times a quantity.
LedgerAmounts == {0, KalshiPrice, IbkrPrice, 2 * KalshiPrice, BalanceLow}
LedgerBalances == {0, BalanceLow, BalanceHigh}
LedgerQuantities == {1, 2}

\* The variables the ledger specification leaves alone, and their values in it.
besideLedger == <<capital, task, venue, ghost, running, monitorVars, detection, fee_call, queueVars,
    bookVars, feedVars, busVars>>

TasksUnused ==
    /\ task = [e \in Execs |-> IdleTask]
    /\ venue = [e \in Execs |-> NoVenue]
    /\ ghost = [e \in Execs |-> NoGhost]
    /\ running = FALSE

ExecutorUnused ==
    /\ capital = [v \in Venues |-> NewAccount(0)]
    /\ TasksUnused

\* cash_total
CashTotal(acct) == acct.cash_available + acct.cash_reserved

LedgerInit ==
    /\ \E cash \in LedgerBalances :
         ledger = [NoLedger EXCEPT !.acct = NewAccount(cash), !.before = NewAccount(cash),
                                   !.initial = cash]
    /\ ExecutorUnused
    /\ MonitorUnused
    /\ detection = NoDetection
    /\ fee_call = NoFeeCall
    /\ QueueUnused
    /\ BooksUnused
    /\ FeedUnused
    /\ BusUnused

\* A call has been made: what it was, what it returned, the account before and after.
Called(op, amount, ok, acct) ==
    /\ ledger.calls < MaxLedgerCalls
    /\ ledger' = [ledger EXCEPT !.op = op, !.amount = amount, !.ok = ok,
                                !.before = ledger.acct, !.acct = acct,
                                !.calls = @ + 1]
    /\ UNCHANGED besideLedger

\* acct.reserve(amount)
CallReserve(amount) ==
    LET r == Reserve(ledger.acct, amount)
    IN Called("reserve", amount, r.ok, r.acct)

\* acct.release(amount)
CallRelease(amount) ==
    Called("release", amount, TRUE, Release(ledger.acct, amount))

\* acct.confirm_spend(amount); the specification keeps the total of the amounts
CallConfirmSpend(amount) ==
    /\ ledger.calls < MaxLedgerCalls
    /\ ledger' = [ledger EXCEPT !.op = "confirm_spend", !.amount = amount, !.ok = TRUE,
                                !.before = ledger.acct,
                                !.acct = ConfirmSpend(ledger.acct, amount),
                                !.calls = @ + 1, !.confirmed = @ + amount]
    /\ UNCHANGED besideLedger

\* acct.add_position(symbol, side, quantity, cost)
CallAddPosition(symbol, side, quantity) ==
    Called("add_position", 0, TRUE, AddPosition(ledger.acct, symbol, side, quantity))

LedgerNext ==
    \/ \E amount \in LedgerAmounts : CallReserve(amount)
    \/ \E amount \in LedgerAmounts : CallRelease(amount)
    \/ \E amount \in LedgerAmounts : CallConfirmSpend(amount)
    \/ \E key \in Keys, quantity \in LedgerQuantities :
          CallAddPosition(key[1], key[2], quantity)

LedgerSpec == LedgerInit /\ [][LedgerNext]_vars

\* ============================== the monitor: feeds, book, detector and gate
\* One mapped symbol, fed by the two streams; the ledger is as earlier
\* executions have left it and no execution runs meanwhile.
MonitorSymbol == "EVT1"
\* (yes_ask, no_ask) of the Kalshi ticks, in cents; the asks of the IBKR halves
\* (NoData stands for a missing, negative or NaN ask).
KalshiTicks == {<<KalshiPrice, 100 - KalshiPrice>>, <<50, 50>>}
IbkrAsks == {IbkrPrice, 46}
NoData == -2
Modes == {"live", "logging"}
\* The ledgers the monitor may find: (Kalshi cash, IBKR cash, contracts already
\* held of every position).
MonitorLedgers ==
    {<<BalanceHigh, BalanceHigh, 0>>, <<50, BalanceHigh, 0>>,
     <<BalanceHigh, BalanceHigh, MaxContractsPerEvent - 1>>,
     <<BalanceHigh, 0, 0>>}

besideMonitor == <<capital, task, venue, ghost, running, ledger, detection, fee_call, queueVars,
    bookVars, feedVars, busVars>>

\* ArbitrageMonitor.__init__ with the ledger in one of the states of `ledgers`
MonitorStarts(ledgers) ==
    /\ \E l \in ledgers :
         capital = [v \in Venues |->
                      [NewAccount(IF v = "KALSHI" THEN l[1] ELSE l[2])
                         EXCEPT !.positions = [k \in Keys |-> l[3]]]]
    /\ \E mode \in Modes : config = [mode |-> mode]
    /\ clock = 1
    /\ kalshi_cache = NoCache
    /\ ibkr_partial = NoPartial
    /\ book = NoBook
    /\ stats = NoStats
    /\ emitted = <<>>
    /\ handled = NoHandled
    /\ TasksUnused
    /\ ledger = NoLedger
    /\ detection = NoDetection
    /\ fee_call = NoFeeCall
    /\ QueueUnused
    /\ BooksUnused
    /\ FeedUnused
    /\ BusUnused

MonitorInit == MonitorStarts(MonitorLedgers)

\* KalshiTickCache.is_stale / IBKRPartialTick.is_stale at time `now`
IsStale(timestamp_ns, now) ==
    \/ timestamp_ns = 0
    \/ now - timestamp_ns > MaxStaleSeconds

\* SymbolBook.has_both
HasBoth(b) == b.kalshi # NoTick /\ b.ibkr # NoTick

\* CentralOrderBook.update(tick) once the tick is in its slot (lines 66-73), and
\* the _handle_opportunity it calls back (lines 149-207): the counters, and the
\* task created for a valid opportunity. An exception out of the gate is caught
\* by the feed loop, which goes on with the next message. `handled` keeps the
\* call: the opportunity, where the gate left, when the two ticks it was derived
\* from were received, and the counters and emissions before the call.
BookUpdated(newbook, cache, partial) ==
    LET opp == IF HasBoth(newbook)
               THEN Detect(newbook.kalshi, newbook.ibkr, MinNetProfit)
               ELSE NoOpportunity
        gate == GateOutcome(capital, opp,
                            ~cache.present \/ IsStale(cache.timestamp_ns, clock),
                            ~partial.present \/ IsStale(partial.timestamp_ns, clock))
    IN /\ book' = newbook
       /\ IF ~opp.found THEN UNCHANGED <<stats, emitted, handled>>
          ELSE /\ stats' = [detected |-> stats.detected + 1,
                            stale |-> stats.stale + IF gate.verdict = "stale" THEN 1 ELSE 0,
                            valid |-> stats.valid + IF gate.verdict = "valid" THEN 1 ELSE 0]
               /\ handled' = [called |-> TRUE, opp |-> opp, verdict |-> gate.verdict,
                              max_qty |-> gate.max_qty,
                              kalshi_received |-> newbook.kalshi.timestamp_local,
                              ibkr_received |-> newbook.ibkr.timestamp_local,
                              at |-> clock,
                              stats_before |-> stats, emitted_before |-> Len(emitted)]
               /\ emitted' =
                     IF gate.verdict # "valid" THEN emitted
                     ELSE IF config.mode = "live"
                     THEN Append(emitted, [to |-> "_execute_opportunity",
                                           args |-> <<gate.scaled, gate.max_qty>>])
                     ELSE Append(emitted, [to |-> "_log_opportunity_only",
                                           args |-> <<gate.scaled>>])

\* Time passes between two messages.
ClockTick ==
    /\ clock < MaxClock
    /\ clock' = clock + 1
    /\ UNCHANGED <<config, kalshi_cache, ibkr_partial, book, stats, emitted, handled>>
    /\ UNCHANGED besideMonitor

\* _process_kalshi lines 398-405: one normalized tick of the Kalshi stream
ProcessKalshi(yes_ask, no_ask) ==
    /\ stats.detected < MaxDetected
    /\ LET cache == [present |-> TRUE, timestamp_ns |-> clock]
       IN /\ kalshi_cache' = cache
          /\ BookUpdated([book EXCEPT !.kalshi = Tick(MonitorSymbol, yes_ask, no_ask, clock)],
                         cache, ibkr_partial)
    /\ UNCHANGED <<clock, config, ibkr_partial>>
    /\ UNCHANGED besideMonitor

\* _process_ibkr lines 421-469: one tick message of the IBKR stream, for the YES
\* or the NO contract of the symbol. The receipt time is stored before the ask is
\* looked at; a message without a usable ask changes nothing else.
ProcessIbkr(side, ask) ==
    /\ stats.detected < MaxDetected
    /\ LET stamped == [ibkr_partial EXCEPT !.present = TRUE, !.timestamp_ns = clock]
           partial == IF side = "YES" THEN [stamped EXCEPT !.yes_ask = ask]
                                      ELSE [stamped EXCEPT !.no_ask = ask]
       IN IF ask = NoData
          THEN /\ ibkr_partial' = stamped
               /\ UNCHANGED <<book, stats, emitted, handled>>
          ELSE /\ ibkr_partial' = partial
               /\ IF partial.yes_ask # NoAsk /\ partial.no_ask # NoAsk
                  THEN BookUpdated([book EXCEPT !.ibkr =
                                      Tick(MonitorSymbol, partial.yes_ask,
                                           partial.no_ask, clock)],
                                   kalshi_cache, partial)
                  ELSE UNCHANGED <<book, stats, emitted, handled>>
    /\ UNCHANGED <<clock, config, kalshi_cache>>
    /\ UNCHANGED besideMonitor

MonitorNext ==
    \/ ClockTick
    \/ \E t \in KalshiTicks : ProcessKalshi(t[1], t[2])
    \/ \E side \in Sides, ask \in IbkrAsks \cup {NoData} : ProcessIbkr(side, ask)

MonitorSpec == MonitorInit /\ [][MonitorNext]_vars

\* ------------------------------------------- the gate's sizing, on fresh ticks
\* The same feed handlers with messages arriving within the same second, over
\* more prices (1 cent, 99 cents, and the 0.0 IBKR may send as an ask) and
\* more ledgers (cash of nothing, of less than one contract, of one, of two;
\* positions at and next to max_contracts_per_event).
SizingKalshiTicks == {<<KalshiPrice, 100 - KalshiPrice>>, <<50, 50>>, <<1, 99>>}
SizingIbkrAsks == {0, 1, IbkrPrice, 46}
SizingLedgers ==
    {<<k, i, held>> : k \in {0, 30, 50, BalanceHigh}, i \in {0, 50, BalanceHigh},
                      held \in {0, MaxContractsPerEvent - 1, MaxContractsPerEvent}}

SizingInit == MonitorStarts(SizingLedgers)

SizingNext ==
    \/ \E t \in SizingKalshiTicks : ProcessKalshi(t[1], t[2])
    \/ \E side \in Sides, ask \in SizingIbkrAsks : ProcessIbkr(side, ask)

SizingSpec == SizingInit /\ [][SizingNext]_vars

\* ===================================================== the detector, one call
\* detect on two ticks, of the same symbol or not, with a min_profit that is
\* negative, zero or positive. The Kalshi asks are 1.00 less the best bid of the
\* other side, from 0.01 to 1.00 and never summing to less than 1.00 (the
\* exchange's book is not crossed); the IBKR asks are those of two separate
\* contracts.
DetectKalshiTicks ==
    {t \in {1, KalshiPrice, 50, 60, 99, 100} \X {1, KalshiPrice, 50, 60, 99, 100} :
        t[1] + t[2] >= 100}
DetectIbkrAsks == {KalshiPrice, IbkrPrice, 46, 50, 55, 60, 100}
MinProfits == {-5, MinNetProfit, 2}

besideDetector == <<capital, task, venue, ghost, running, ledger, monitorVars, fee_call, queueVars,
    bookVars, feedVars, busVars>>

DetectInit ==
    /\ \E ks \in Symbols, is \in Symbols, min_profit \in MinProfits,
          k \in DetectKalshiTicks, iy \in DetectIbkrAsks, in \in DetectIbkrAsks :
         detection = [NoDetection EXCEPT !.kalshi_tick = Tick(ks, k[1], k[2], 1),
                                         !.ibkr_tick = Tick(is, iy, in, 1),
                                         !.min_profit = min_profit]
    /\ ExecutorUnused
    /\ MonitorUnused
    /\ ledger = NoLedger
    /\ fee_call = NoFeeCall
    /\ QueueUnused
    /\ BooksUnused
    /\ FeedUnused
    /\ BusUnused

\* ArbitrageDetector(min_profit=...).detect(kalshi_tick, ibkr_tick)
DetectCall ==
    /\ ~detection.called
    /\ detection' = [detection EXCEPT
                       !.called = TRUE,
                       !.result = Detect(detection.kalshi_tick, detection.ibkr_tick,
                                         detection.min_profit)]
    /\ UNCHANGED besideDetector

DetectNext == DetectCall

DetectSpec == DetectInit /\ [][DetectNext]_vars

\* ------------------------------------------------------------ the fee schedule
\* taker_fee on any price of 0.01 to 0.99 in whole cents and any quantity of 1
\* to MaxFeeQuantity, with the default rate.
FeePrices == 1..99
FeeQuantities == 1..MaxFeeQuantity

besideFees == <<capital, task, venue, ghost, running, ledger, monitorVars, detection, queueVars,
    bookVars, feedVars, busVars>>

FeeInit ==
    /\ \E price \in FeePrices, quantity \in FeeQuantities :
         fee_call = [NoFeeCall EXCEPT !.price = price, !.quantity = quantity]
    /\ ExecutorUnused
    /\ MonitorUnused
    /\ ledger = NoLedger
    /\ detection = NoDetection
    /\ QueueUnused
    /\ BooksUnused
    /\ FeedUnused
    /\ BusUnused

\* KALSHI_FEES.taker_fee(price, quantity)
TakerFeeCall ==
    /\ ~fee_call.called
    /\ fee_call' = [fee_call EXCEPT !.called = TRUE,
                                    !.fee = TakerFee(fee_call.price, fee_call.quantity)]
    /\ UNCHANGED besideFees

FeeNext == TakerFeeCall

FeeSpec == FeeInit /\ [][FeeNext]_vars

\* ----------------------------------------------------- the bounded event queue
\* core/event_bus.py: BoundedEventQueue over asyncio.Queue and asyncio.Lock.
\* Producers and consumers are asyncio tasks of one event loop: the code between
\* two awaits that suspend is one atomic action.
Capacities == 1..MaxQueueSize
Policies == {"BLOCK", "DROP_OLDEST", "DROP_NEWEST", "RAISE"}
\* The overflow callback: not set, a coroutine that returns without suspending,
\* or one that awaits something before it returns.
Hooks == {"none", "returns", "suspends"}

besideQueue ==
    <<capital, task, venue, ghost, running, ledger, monitorVars, detection, fee_call,
      bookVars, feedVars, busVars>>

\* A queue of any size and policy; the overflow callback, which only the two
\* DROP policies call, is set or not under those.
QueueInit ==
    /\ \E max_size \in Capacities, policy \in Policies, hook \in Hooks :
         /\ policy \in {"BLOCK", "RAISE"} => hook = "none"
         /\ queue = NewQueue(max_size, policy, hook)
    /\ proc = [t \in Tasks |-> IdleProc]
    /\ qlog = NoQueueLog
    /\ BooksUnused
    /\ FeedUnused
    /\ BusUnused
    /\ ExecutorUnused
    /\ MonitorUnused
    /\ ledger = NoLedger
    /\ detection = NoDetection
    /\ fee_call = NoFeeCall

\* The three variables of the queue as one value, for the steps below.
QState(q, pr, lg) == [q |-> q, pr |-> pr, lg |-> lg]

\* asyncio.Queue.full (max_size >= 1) and empty
Full(q) == Len(q.items) >= q.max_size
Empty(q) == q.items = <<>>

\* self._total_dropped += 1 (lines 98, 106, 118, 122)
CountDroppedNot(q) == q

CountDropped(q) == [q EXCEPT !.total_dropped = @ + 1]

\* asyncio.Queue.put_nowait on a queue that is not full: the item goes to the
\* tail and the first waiting getter is woken.
PutNowaitAtHead(s, item) ==
    LET g == s.q.getters
    IN QState([s.q EXCEPT !.items = <<item>> \o @,
                          !.getters = IF g = <<>> THEN g ELSE Tail(g)],
              IF g = <<>> THEN s.pr ELSE [s.pr EXCEPT ![Head(g)].pc = "get_woken"],
              [s.lg EXCEPT !.accepted = Append(@, item)])

PutNowait(s, item) ==
    LET g == s.q.getters
    IN QState([s.q EXCEPT !.items = Append(@, item),
                          !.getters = IF g = <<>> THEN g ELSE Tail(g)],
              IF g = <<>> THEN s.pr ELSE [s.pr EXCEPT ![Head(g)].pc = "get_woken"],
              [s.lg EXCEPT !.accepted = Append(@, item)])

\* asyncio.Queue.get_nowait on a queue that is not empty: the head leaves and
\* the first waiting putter is woken.
GetNowaitNoWakeup(s) ==
    QState([s.q EXCEPT !.items = Tail(@)], s.pr, s.lg)

GetNowait(s) ==
    LET p == s.q.putters
    IN QState([s.q EXCEPT !.items = Tail(@),
                          !.putters = IF p = <<>> THEN p ELSE Tail(p)],
              IF p = <<>> THEN s.pr ELSE [s.pr EXCEPT ![Head(p)].pc = "woken"],
              s.lg)

\* put returns (True, False) or raises (QueueFull) to the producer.
PutReturns(s, p, ret) ==
    QState(s.q,
           [s.pr EXCEPT ![p] = [IdleProc EXCEPT !.ret = ret]],
           IF ret = "True" THEN s.lg
           ELSE [s.lg EXCEPT !.rejected = @ \cup {s.pr[p].item}])

\* asyncio.Lock.release at the end of `async with self._lock`: the first waiter
\* is woken and stays in the line until it runs.
ReleaseLock(s) ==
    LET w == s.q.lock_waiters
    IN QState([s.q EXCEPT !.locked = FALSE],
              IF w = <<>> THEN s.pr ELSE [s.pr EXCEPT ![Head(w)].pc = "lock_woken"],
              s.lg)

\* Lines 111-119, with the lock held: add the new item, or count it dropped
\* when the queue is full again, and leave the critical section.
InsertAfterEvictionUnchecked(s, p) ==
    LET a == PutNowait(s, s.pr[p].item)
    IN ReleaseLock(PutReturns(
           QState([a.q EXCEPT !.total_enqueued = @ + 1], a.pr, a.lg), p, "True"))

InsertAfterEviction(s, p) ==
    IF Full(s.q)
    THEN ReleaseLock(PutReturns(QState(CountDropped(s.q), s.pr, s.lg), p, "False"))
    ELSE LET a == PutNowait(s, s.pr[p].item)
         IN ReleaseLock(PutReturns(
                QState([a.q EXCEPT !.total_enqueued = @ + 1], a.pr, a.lg), p, "True"))

\* Lines 103-119, with the lock held: evict the head if there is one, hand it to
\* the overflow callback, then add the new item.
EvictOldest(s, p) ==
    IF Empty(s.q) THEN InsertAfterEviction(s, p)
    ELSE LET dropped == Head(s.q.items)
             g == GetNowait(s)
             d == QState(CountDropped(g.q), g.pr,
                         IF g.q.overflow_callback = "none" THEN g.lg
                         ELSE [g.lg EXCEPT !.hooked = Append(@, dropped)])
         IN IF d.q.overflow_callback = "suspends"
            THEN QState(d.q, [d.pr EXCEPT ![p].pc = "hook_oldest"], d.lg)
            ELSE InsertAfterEviction(d, p)

\* asyncio.Lock.acquire: taken at once when the lock is free and nobody is in
\* line, else the task joins the line.
AcquireLock(s, p) ==
    IF ~s.q.locked /\ s.q.lock_waiters = <<>>
    THEN EvictOldest(QState([s.q EXCEPT !.locked = TRUE], s.pr, s.lg), p)
    ELSE QState([s.q EXCEPT !.lock_waiters = Append(@, p)],
                [s.pr EXCEPT ![p].pc = "lock_wait"], s.lg)

\* asyncio.Queue.put inside the BLOCK branch: wait in line while the queue is
\* full, else put_nowait. With a timeout the put runs in a task of its own and
\* line 95 runs when the caller is resumed.
QueuePut(s, p) ==
    IF Full(s.q)
    THEN QState([s.q EXCEPT !.putters = Append(@, p)],
                [s.pr EXCEPT ![p].pc = "waiting"], s.lg)
    ELSE LET a == PutNowait(s, s.pr[p].item)
         IN IF s.pr[p].timeout
            THEN QState(a.q, [a.pr EXCEPT ![p].pc = "inserted"], a.lg)
            ELSE PutReturns(QState([a.q EXCEPT !.total_enqueued = @ + 1], a.pr, a.lg),
                            p, "True")

\* Lines 121-125: the incoming item is counted dropped and handed to the
\* overflow callback.
DropNewestAsOldest(s, p) == AcquireLock(s, p)

DropNewest(s, p) ==
    LET d == QState(CountDropped(s.q), s.pr,
                    IF s.q.overflow_callback = "none" THEN s.lg
                    ELSE [s.lg EXCEPT !.hooked = Append(@, s.pr[p].item)])
    IN IF s.q.overflow_callback = "suspends"
       THEN QState(d.q, [d.pr EXCEPT ![p].pc = "hook_newest"], d.lg)
       ELSE PutReturns(d, p, "False")

\* BoundedEventQueue.put up to its first suspension.
PutCall(s, p) ==
    IF ~Full(s.q)
    THEN LET a == PutNowait(s, s.pr[p].item)
         IN PutReturns(QState([a.q EXCEPT !.total_enqueued = @ + 1], a.pr, a.lg), p, "True")
    ELSE CASE s.q.policy = "BLOCK" ->
                IF s.pr[p].timeout
                THEN QState(s.q, [s.pr EXCEPT ![p].pc = "scheduled"], s.lg)
                ELSE QueuePut(s, p)
           [] s.q.policy = "DROP_OLDEST" -> AcquireLock(s, p)
           [] s.q.policy = "DROP_NEWEST" -> DropNewest(s, p)
           [] s.q.policy = "RAISE" -> PutReturns(s, p, "QueueFull")

\* await queue.put(item, timeout): a producer calls put with the next item.
Put(p, timeout) ==
    /\ proc[p].pc = "idle"
    /\ qlog.next_item <= MaxPuts
    /\ timeout => queue.policy = "BLOCK"
    /\ LET s == PutCall(QState(queue,
                               [proc EXCEPT ![p] = [IdleProc EXCEPT
                                                      !.item = qlog.next_item,
                                                      !.timeout = timeout]],
                               [qlog EXCEPT !.next_item = @ + 1]), p)
       IN queue' = s.q /\ proc' = s.pr /\ qlog' = s.lg
    /\ UNCHANGED besideQueue

\* The overflow callback returns to the put that awaited it (lines 108, 124).
HookReturns(p) ==
    /\ proc[p].pc \in {"hook_oldest", "hook_newest"}
    /\ LET s == IF proc[p].pc = "hook_oldest"
                THEN InsertAfterEviction(QState(queue, proc, qlog), p)
                ELSE PutReturns(QState(queue, proc, qlog), p, "False")
       IN queue' = s.q /\ proc' = s.pr /\ qlog' = s.lg
    /\ UNCHANGED besideQueue

\* A producer woken by the lock's release takes the lock and runs lines 103-119.
LockGranted(p) ==
    /\ proc[p].pc = "lock_woken"
    /\ LET s == EvictOldest(QState([queue EXCEPT !.locked = TRUE,
                                                 !.lock_waiters = Tail(@)],
                                   proc, qlog), p)
       IN queue' = s.q /\ proc' = s.pr /\ qlog' = s.lg
    /\ UNCHANGED besideQueue

\* The put of the BLOCK branch runs: started by wait_for, or woken by a get.
PutResumes(p) ==
    /\ proc[p].pc \in {"scheduled", "woken"}
    /\ LET s == QueuePut(QState(queue, proc, qlog), p)
       IN queue' = s.q /\ proc' = s.pr /\ qlog' = s.lg
    /\ UNCHANGED besideQueue

\* wait_for hands the finished put back to the caller: lines 95-96.
PutCompletes(p) ==
    /\ proc[p].pc = "inserted"
    /\ LET s == PutReturns(QState([queue EXCEPT !.total_enqueued = @ + 1], proc, qlog),
                           p, "True")
       IN queue' = s.q /\ proc' = s.pr /\ qlog' = s.lg
    /\ UNCHANGED besideQueue

\* The timeout of wait_for elapses before the put has added the item: the put
\* is cancelled (it leaves the line, and passes a wake-up it cannot use to the
\* next in line), and lines 97-99 run.
PutTimeout(p) ==
    /\ proc[p].pc \in {"scheduled", "waiting", "woken"}
    /\ proc[p].timeout
    /\ LET left == [queue EXCEPT !.putters = SelectSeq(@, LAMBDA t : t # p)]
           pass == proc[p].pc = "woken" /\ ~Full(queue) /\ left.putters # <<>>
           q == IF pass THEN [left EXCEPT !.putters = Tail(@)] ELSE left
           pr == IF pass THEN [proc EXCEPT ![Head(left.putters)].pc = "woken"] ELSE proc
           s == PutReturns(QState(CountDropped(q), pr, qlog), p, "False")
       IN queue' = s.q /\ proc' = s.pr /\ qlog' = s.lg
    /\ UNCHANGED besideQueue

\* Lines 152-164 and 169-178: the head is taken, counted and returned.
Take(s, c) ==
    LET item == Head(s.q.items)
        g == GetNowait(s)
    IN QState([g.q EXCEPT !.total_dequeued = @ + 1],
              [g.pr EXCEPT ![c] = [IdleProc EXCEPT !.ret = "item"]],
              [g.lg EXCEPT !.returned = Append(@, item)])

\* asyncio.Queue.get: wait in line while the queue is empty, else get_nowait.
QueueGet(s, c) ==
    IF Empty(s.q)
    THEN QState([s.q EXCEPT !.getters = Append(@, c)],
                [s.pr EXCEPT ![c].pc = "get_waiting"], s.lg)
    ELSE Take(s, c)

\* await queue.get()
Get(c) ==
    /\ proc[c].pc = "idle"
    /\ LET s == QueueGet(QState(queue, proc, qlog), c)
       IN queue' = s.q /\ proc' = s.pr /\ qlog' = s.lg
    /\ UNCHANGED besideQueue

\* A consumer woken by a put runs again.
GetResumes(c) ==
    /\ proc[c].pc = "get_woken"
    /\ LET s == QueueGet(QState(queue, proc, qlog), c)
       IN queue' = s.q /\ proc' = s.pr /\ qlog' = s.lg
    /\ UNCHANGED besideQueue

\* queue.get_nowait()
GetNowaitCall(c) ==
    /\ proc[c].pc = "idle"
    /\ LET s == IF Empty(queue)
                THEN QState(queue, [proc EXCEPT ![c] = [IdleProc EXCEPT !.ret = "QueueEmpty"]],
                            qlog)
                ELSE Take(QState(queue, proc, qlog), c)
       IN queue' = s.q /\ proc' = s.pr /\ qlog' = s.lg
    /\ UNCHANGED besideQueue

QueueNext ==
    \/ \E p \in Producers, timeout \in BOOLEAN : Put(p, timeout)
    \/ \E p \in Producers : HookReturns(p)
    \/ \E p \in Producers : LockGranted(p)
    \/ \E p \in Producers : PutResumes(p)
    \/ \E p \in Producers : PutCompletes(p)
    \/ \E p \in Producers : PutTimeout(p)
    \/ \E c \in Consumers : Get(c)
    \/ \E c \in Consumers : GetResumes(c)
    \/ \E c \in Consumers : GetNowaitCall(c)

QueueSpec == QueueInit /\ [][QueueNext]_vars

\* The queue under BLOCK alone, with the scheduling of the event loop: a task
\* that has been woken runs, and the consumer keeps calling get.
\* Two of the producers make up to MaxBlockPuts puts on a queue of up to
\* MaxBlockSize items, constructed with or without an overflow callback.
BlockProducers == {"p1", "p2"}

BlockInit ==
    /\ \E max_size \in 1..MaxBlockSize, hook \in {"none", "returns"} :
         queue = NewQueue(max_size, "BLOCK", hook)
    /\ proc = [t \in Tasks |-> IdleProc]
    /\ qlog = NoQueueLog
    /\ BooksUnused
    /\ FeedUnused
    /\ BusUnused
    /\ ExecutorUnused
    /\ MonitorUnused
    /\ ledger = NoLedger
    /\ detection = NoDetection
    /\ fee_call = NoFeeCall

BlockNext ==
    \/ \E p \in BlockProducers, timeout \in BOOLEAN :
          qlog.next_item <= MaxBlockPuts /\ Put(p, timeout)
    \/ \E p \in BlockProducers : PutResumes(p)
    \/ \E p \in BlockProducers : PutCompletes(p)
    \/ \E p \in BlockProducers : PutTimeout(p)
    \/ \E c \in Consumers : Get(c)
    \/ \E c \in Consumers : GetResumes(c)
    \/ \E c \in Consumers : GetNowaitCall(c)

BlockSpec ==
    /\ BlockInit /\ [][BlockNext]_vars
    /\ \A p \in Producers : WF_vars(PutResumes(p)) /\ WF_vars(PutCompletes(p))
    /\ \A c \in Consumers : WF_vars(Get(c)) /\ WF_vars(GetResumes(c))


\* -------------------------------------------------- the central order book
\* The two feed tasks call CentralOrderBook.update with the ticks they
\* normalize. asyncio.Lock.acquire returns without suspending when the lock is
\* free, and nothing between the acquire and the release of update awaits, so a
\* call of update runs from its first line to its return without another task
\* running: the calls of the two feeds happen one whole call after another, in
\* any order.
BookQuotes == {<<KalshiPrice, 60>>, <<60, KalshiPrice>>}

besideBooks ==
    <<capital, task, venue, ghost, running, ledger, monitorVars, detection, fee_call,
      queueVars, feedVars, busVars>>

BookInit ==
    /\ books = NoBooks
    /\ book_call = NoBookCall
    /\ ExecutorUnused
    /\ MonitorUnused
    /\ ledger = NoLedger
    /\ detection = NoDetection
    /\ fee_call = NoFeeCall
    /\ QueueUnused
    /\ FeedUnused
    /\ BusUnused

\* (mutant) every tick is stored as the Kalshi tick
SymbolBookUpdateKalshiSlot(b, tick) == [b EXCEPT !.kalshi = tick]

\* SymbolBook.update
SymbolBookUpdate(b, tick) ==
    IF tick.exchange = "KALSHI" THEN [b EXCEPT !.kalshi = tick]
    ELSE IF tick.exchange = "IBKR" THEN [b EXCEPT !.ibkr = tick]
    ELSE b

\* CentralOrderBook.update(tick): the book of the symbol takes the tick, and
\* when it then has both ticks the detector is called on them (the opportunity
\* it finds goes to on_opportunity and is returned).
Update(exchange, symbol, quote) ==
    /\ book_call.updates < MaxBookUpdates
    /\ LET tick == VenueTick(exchange, symbol, quote[1], quote[2], book_call.updates + 1)
           b == SymbolBookUpdate(books[symbol], tick)
       IN /\ books' = [books EXCEPT ![symbol] = b]
          /\ book_call' =
                [called |-> TRUE, tick |-> tick, before |-> books,
                 detected |-> HasBoth(b),
                 pair |-> IF HasBoth(b) THEN <<b.kalshi, b.ibkr>> ELSE <<NoTick, NoTick>>,
                 opportunity |-> IF HasBoth(b) THEN Detect(b.kalshi, b.ibkr, MinNetProfit)
                                 ELSE NoOpportunity,
                 updates |-> book_call.updates + 1]
    /\ UNCHANGED besideBooks

BookNext ==
    \E exchange \in Venues, symbol \in Symbols, quote \in BookQuotes :
        Update(exchange, symbol, quote)

BookSpec == BookInit /\ [][BookNext]_vars


\* ------------------------------------------------ the IBKR feed's partial ticks
\* _process_ibkr lines 421-477 for one tick message with a mapped con_id: the
\* receipt time is stored first; a message without a usable ask (None, or a
\* float that is negative or NaN) ends there; int() of a NaN ask_size raises,
\* which the handler of line 474 catches, before either field of the half is
\* written; else the half takes the ask and its size, and a NormalizedTick goes
\* to the book when both halves have an ask. ib_insync's Ticker starts with ask
\* and askSize NaN and reports them as they arrive, so either may be NaN in a
\* message.
NanSize == -3
IbkrQuotes == {<<NoData, 0>>, <<KalshiPrice, 5>>, <<60, 7>>, <<KalshiPrice, NanSize>>}

besideFeed ==
    <<capital, task, venue, ghost, running, ledger, monitorVars, detection, fee_call,
      queueVars, bookVars, busVars>>

FeedInit ==
    /\ partials = NoPartials
    /\ ibkr_call = NoIbkrCall
    /\ ExecutorUnused
    /\ MonitorUnused
    /\ ledger = NoLedger
    /\ detection = NoDetection
    /\ fee_call = NoFeeCall
    /\ QueueUnused
    /\ BooksUnused
    /\ BusUnused

\* IBKRPartialTick.is_complete
IsComplete(partial) == partial.yes_ask # NoAsk /\ partial.no_ask # NoAsk

\* lines 444-453: the half of `side` takes the ask and its size
SetHalf(partial, side, ask, ask_size) ==
    IF side = "YES"
    THEN [partial EXCEPT !.yes_ask = ask, !.yes_ask_size = ask_size]
    ELSE [partial EXCEPT !.no_ask = ask, !.no_ask_size = ask_size]

\* One tick message of the IBKR stream for the YES or NO contract of a symbol.
IbkrMessage(symbol, side, ask, ask_size) ==
    /\ ibkr_call.messages < MaxIbkrMessages
    /\ LET now == ibkr_call.messages + 1
           stamped == [partials[symbol] EXCEPT !.timestamp_ns = now]
           usable == ask # NoData
           raises == usable /\ ask_size = NanSize
           partial == IF usable /\ ~raises THEN SetHalf(stamped, side, ask, ask_size)
                      ELSE stamped
           emits == usable /\ ~raises /\ IsComplete(partial)
       IN /\ partials' = [partials EXCEPT ![symbol] = partial]
          /\ ibkr_call' =
                [called |-> TRUE, symbol |-> symbol, side |-> side, ask |-> ask,
                 ask_size |-> ask_size, before |-> partials,
                 emitted |-> IF emits
                             THEN Tick(symbol, partial.yes_ask, partial.no_ask, now)
                             ELSE NoTick,
                 raised |-> raises, messages |-> now]
    /\ UNCHANGED besideFeed

FeedNext ==
    \E symbol \in Symbols, side \in Sides, quote \in IbkrQuotes :
        IbkrMessage(symbol, side, quote[1], quote[2])

FeedSpec == FeedInit /\ [][FeedNext]_vars

\* ------------------------------------------------ the event bus's channels
\* EventBus keeps a list of callbacks per channel. publish iterates the list
\* object it read at its call (`view`): subscribe appends to the channel's
\* current list, which is the publisher's as long as no unsubscribe has
\* replaced it (`live`); unsubscribe binds the channel to a filtered copy.
\* Other tasks run only while the publisher awaits a coroutine callback.
MaxSubscribes == 2
MaxUnsubscribes == 1
MaxPublishes == 2

\* The callbacks of the run and what each does with an event: return, raise
\* an Exception, suspend in an await before returning, or raise a
\* BaseException that is no Exception (SystemExit, CancelledError).
Callbacks == {"on_event", "on_error", "on_async", "on_exit"}
CallbackKind(callback) ==
    CASE callback = "on_event" -> "returns"
      [] callback = "on_error" -> "raises"
      [] callback = "on_async" -> "awaits"
      [] callback = "on_exit" -> "escapes"

besideBus ==
    <<capital, task, venue, ghost, running, ledger, monitorVars, detection, fee_call,
      queueVars, bookVars, feedVars>>

BusInit ==
    /\ subscribers = [ch \in Channels |-> <<>>]
    /\ publisher = NoPublish
    /\ bus_calls = NoBusCalls
    /\ ExecutorUnused
    /\ MonitorUnused
    /\ ledger = NoLedger
    /\ detection = NoDetection
    /\ fee_call = NoFeeCall
    /\ QueueUnused
    /\ BooksUnused
    /\ FeedUnused

\* No task but the publisher runs between two awaits of publish.
BusYields == publisher.pc \in {"idle", "awaiting", "done"}

Without(list, callback) == SelectSeq(list, LAMBDA cb : cb # callback)

\* subscribe(channel, callback): append to the channel's list.
Subscribe(channel, callback) ==
    /\ BusYields
    /\ bus_calls.subscribe < MaxSubscribes
    /\ subscribers' = [subscribers EXCEPT ![channel] = Append(@, callback)]
    /\ publisher' =
         IF publisher.pc = "awaiting" /\ publisher.channel = channel
         THEN [publisher EXCEPT
                 !.view = IF publisher.live THEN Append(@, callback) ELSE @,
                 !.added = IF publisher.live THEN Append(@, callback) ELSE @,
                 !.barred = @ \ {callback}]
         ELSE publisher
    /\ bus_calls' = [bus_calls EXCEPT !.subscribe = @ + 1,
                                      !.removed = @ \ {<<channel, callback>>}]
    /\ UNCHANGED besideBus

\* unsubscribe(channel, callback): bind the channel to a new list without
\* any entry of the callback.
Unsubscribe(channel, callback) ==
    /\ BusYields
    /\ bus_calls.unsubscribe < MaxUnsubscribes
    /\ subscribers' = [subscribers EXCEPT ![channel] = Without(@, callback)]
    /\ publisher' =
         IF publisher.pc = "awaiting" /\ publisher.channel = channel
         THEN [publisher EXCEPT !.live = FALSE]
         ELSE publisher
    /\ bus_calls' = [bus_calls EXCEPT !.unsubscribe = @ + 1,
                                      !.removed = @ \cup {<<channel, callback>>}]
    /\ UNCHANGED besideBus

\* publish(channel, event) is called: it reads the channel's list.
PublishCall(channel) ==
    /\ publisher.pc \in {"idle", "done"}
    /\ bus_calls.publish < MaxPublishes
    /\ publisher' =
         [NoPublish EXCEPT
            !.pc = "loop", !.channel = channel, !.event = bus_calls.publish + 1,
            !.view = subscribers[channel], !.live = TRUE,
            !.at_call = subscribers[channel],
            !.barred = {cb \in Callbacks : <<channel, cb>> \in bus_calls.removed}]
    /\ bus_calls' = [bus_calls EXCEPT !.publish = @ + 1]
    /\ UNCHANGED <<subscribers, besideBus>>

\* Mutation of the loop body: an exception of a callback ends the delivery.
PublishStepStopsAtError ==
    /\ publisher.pc = "loop"
    /\ IF publisher.index = Len(publisher.view)
       THEN publisher' = [publisher EXCEPT !.pc = "done", !.outcome = "returned"]
       ELSE LET callback == publisher.view[publisher.index + 1]
                kind == CallbackKind(callback)
                called == [publisher EXCEPT !.index = @ + 1,
                                            !.delivered = Append(@, callback)]
            IN publisher' =
                 CASE kind = "returns" -> called
                   [] kind = "raises" ->
                        [called EXCEPT !.pc = "done", !.outcome = "returned"]
                   [] kind = "awaits" -> [called EXCEPT !.pc = "awaiting"]
                   [] kind = "escapes" ->
                        [called EXCEPT !.pc = "done", !.outcome = "propagated"]
    /\ UNCHANGED <<subscribers, bus_calls, besideBus>>

\* One turn of publish's loop: the next entry of the list is called with the
\* event; an Exception is logged and the loop goes on, any other exception
\* leaves publish; after the last entry publish returns.
PublishStep ==
    /\ publisher.pc = "loop"
    /\ IF publisher.index = Len(publisher.view)
       THEN publisher' = [publisher EXCEPT !.pc = "done", !.outcome = "returned"]
       ELSE LET callback == publisher.view[publisher.index + 1]
                kind == CallbackKind(callback)
                called == [publisher EXCEPT !.index = @ + 1,
                                            !.delivered = Append(@, callback)]
            IN publisher' =
                 CASE kind = "returns" -> called
                   [] kind = "raises" -> called
                   [] kind = "awaits" -> [called EXCEPT !.pc = "awaiting"]
                   [] kind = "escapes" ->
                        [called EXCEPT !.pc = "done", !.outcome = "propagated"]
    /\ UNCHANGED <<subscribers, bus_calls, besideBus>>

\* The coroutine callback that publish awaits returns.
CallbackResumes ==
    /\ publisher.pc = "awaiting"
    /\ publisher' = [publisher EXCEPT !.pc = "loop"]
    /\ UNCHANGED <<subscribers, bus_calls, besideBus>>

BusNext ==
    \/ \E channel \in Channels, callback \in Callbacks : Subscribe(channel, callback)
    \/ \E channel \in Channels, callback \in Callbacks : Unsubscribe(channel, callback)
    \/ \E channel \in Channels : PublishCall(channel)
    \/ PublishStep
    \/ CallbackResumes

BusSpec == BusInit /\ [][BusNext]_vars

\* =============================================================== claims
Returned(e) == task[e].pc = "returned"
Failed(e) == Returned(e) /\ ~task[e].success /\ ~task[e].rolled_back
Executing(e) == task[e].pc \in InFlight
Holds(e, kalshi, ibkr) ==
    ghost[e].held["KALSHI"] = kalshi /\ ghost[e].held["IBKR"] = ibkr
Spent(e, kalshi, ibkr) ==
    ghost[e].spent["KALSHI"] = kalshi /\ ghost[e].spent["IBKR"] = ibkr
\* Leg B has come back unfilled to an execution whose leg A was filled.
LegBUnfilled(e) ==
    /\ task[e].kalshi_filled
    /\ \/ task[e].pc \in {"hPlace", "hGet"}
       \/ task[e].cancelled_at \in {"hPlace", "hGet"}
       \/ Returned(e) /\ ~task[e].ibkr_filled

\* C1: whenever execute returns success=false and rolled_back=false, no contract
\* of either leg was filled at the venues and the execution has left
\* cash_available and cash_reserved of both venues as they were before the call.
C1_FailedHasNoFills ==
    \A e \in Execs :
        Failed(e) => /\ venue[e].kFill = 0
                     /\ venue[e].iFill = 0
                     /\ Holds(e, 0, 0)
                     /\ Spent(e, 0, 0)

\* C2: once leg A is filled and leg B has come back unfilled, leg B's reservation
\* is released, the hedge order submitted on Kalshi is for the opposite side, for
\* leg A's filled quantity, at 99 cents, and the result execute returns has
\* rolled_back=true and success=false.
C2_LegBFailureRollsBack ==
    \A e \in Execs :
        LegBUnfilled(e) =>
            /\ ghost[e].held["IBKR"] = 0
            /\ ghost[e].spent["IBKR"] = 0
            /\ venue[e].hReq = [side |-> Opposite(task[e].kalshi_side),
                                count |-> venue[e].kFill,
                                price |-> 99]
            /\ venue[e].hReq.count = task[e].kalshi_fill_quantity
            /\ Returned(e) => task[e].rolled_back /\ ~task[e].success

\* C2 witness: an execution that bought YES on Kalshi returned rolled back after
\* its leg B was cancelled by the venue.
C2_Witness ==
    \E e \in Execs :
        /\ Returned(e) /\ task[e].rolled_back
        /\ task[e].kalshi_side = "YES"
        /\ venue[e].iStatus = "Cancelled"
        /\ venue[e].hReq.side = "NO"

\* C3: after execute returns a rolled_back result the execution holds no
\* reservation on either venue (cash_reserved is back at its pre-call value).
C3_RolledBackHoldsNothing ==
    \A e \in Execs :
        (Returned(e) /\ task[e].rolled_back) => Holds(e, 0, 0)

\* C4: whenever execute returns success=true, both legs were reported filled,
\* each venue's cash_reserved is back at its pre-call value and its
\* cash_available lower by that leg's reserved cost, the (symbol, side) position
\* on each venue grew by exactly that leg's fill quantity, and rolled_back is
\* false.
C4_SuccessCommitsBothLegs ==
    \A e \in Execs :
        task[e].success =>
            /\ Returned(e) /\ ~task[e].rolled_back
            /\ task[e].kalshi_filled /\ task[e].ibkr_filled
            /\ KalshiIsFilled(KalshiOrderView(venue[e].kReq.count, venue[e].kStatus,
                                              venue[e].kFill))
            /\ IbkrIsFilled(venue[e].iStatus)
            /\ Holds(e, 0, 0)
            /\ Spent(e, KalshiPrice * task[e].quantity, IbkrPrice * task[e].quantity)
            /\ ghost[e].posAdded["KALSHI"] = venue[e].kFill
            /\ ghost[e].posAdded["IBKR"] = venue[e].iFill
            /\ task[e].kalshi_fill_quantity = venue[e].kFill
            /\ task[e].ibkr_fill_quantity = venue[e].iFill

\* C4 witness: two executions of the same symbol and side have both succeeded,
\* and the ledger position is the sum of their fills.
C4_Witness ==
    /\ \A e \in Execs : task[e].success /\ task[e].symbol = "EVT1"
    /\ capital["KALSHI"].positions[<<"EVT1", "YES">>] = 4
    /\ capital["IBKR"].positions[<<"EVT1", "NO">>] = 4

\* C5: no two executions of the same symbol are in flight (between reservation
\* and terminal result) at the same time.
C5_SameSymbolSerialized ==
    \A e1, e2 \in Execs :
        (e1 # e2 /\ Executing(e1) /\ Executing(e2)) => task[e1].symbol # task[e2].symbol

\* C6: when leg A times out after a partial fill of k > 0 contracts, execute goes
\* on to leg B with a leg-B order for k contracts; it does not return a failed
\* result.
C6_PartialTimeoutGoesToLegB ==
    \A e \in Execs :
        (Returned(e) /\ task[e].error = "timeout" /\ task[e].kalshi_fill_quantity > 0)
            => /\ ~Failed(e)
               /\ venue[e].iReq = task[e].kalshi_fill_quantity

\* C7: the leg-B order is for exactly the quantity of leg A the venue reported
\* filled, and no leg-B order is submitted when that quantity is zero.
C7_LegBQuantityIsLegAFill ==
    \A e \in Execs :
        /\ venue[e].iReq > 0 => venue[e].iReq = task[e].kalshi_fill_quantity
        /\ task[e].kalshi_fill_quantity = 0 => venue[e].iReq = 0

\* C8: the leg-A order is placed only with price x quantity reserved on both
\* venues; after a failed reserve the result is failed, no order was placed on
\* any venue, nothing is left reserved and both venues' cash is unchanged.
C8_ReserveBeforeOrder ==
    \A e \in Execs :
        /\ task[e].pc = "kPlace" =>
              /\ Holds(e, KalshiPrice * task[e].quantity, IbkrPrice * task[e].quantity)
              /\ Spent(e, KalshiPrice * task[e].quantity, IbkrPrice * task[e].quantity)
        /\ venue[e].kReq # NoOrder =>
              /\ task[e].pc \notin {"idle", "spawned"}
              /\ task[e].error \notin {"InsufficientKalshi", "InsufficientIBKR"}
              /\ venue[e].kReq.count = task[e].quantity
        /\ task[e].error \in {"InsufficientKalshi", "InsufficientIBKR"} =>
              /\ Failed(e)
              /\ venue[e] = NoVenue
              /\ Holds(e, 0, 0)
              /\ Spent(e, 0, 0)

\* C8 witness: the second reserve (IBKR) failed after the first had succeeded.
C8_Witness ==
    \E e \in Execs :
        /\ Returned(e) /\ task[e].error = "InsufficientIBKR"
        /\ KalshiPrice * task[e].quantity <= capital["KALSHI"].cash_available

\* C9: when an error (here the cancellation of the task) leaves execute after
\* both reservations succeeded, the execution holds no reservation on either
\* venue.
C9_ErrorReleasesReservations ==
    \A e \in Execs :
        (task[e].pc = "cancelled" /\ task[e].cancelled_at \in InFlight) => Holds(e, 0, 0)

C11_SumChangesOnlyInConfirmSpend ==
    /\ CashTotal(ledger.acct)
         = CashTotal(ledger.before)
             - (IF ledger.op = "confirm_spend" THEN ledger.amount ELSE 0)
    /\ CashTotal(ledger.acct) = ledger.initial - ledger.confirmed

\* C11 witness: a release of a positive amount, made after some cash was
\* reserved and confirmed spent.
C11_Witness ==
    /\ ledger.op = "release" /\ ledger.amount > 0
    /\ ledger.confirmed > 0
    /\ ledger.acct.cash_available > ledger.before.cash_available

\* C12: reserve(amount) returns True exactly when cash_available >= amount, and
\* then moves exactly amount from cash_available to cash_reserved; when it
\* returns False the account (cash and positions) is as it was.
C12_ReserveIffAffordable ==
    ledger.op = "reserve" =>
        /\ ledger.ok <=> ledger.before.cash_available >= ledger.amount
        /\ ledger.ok =>
              /\ ledger.acct.cash_available
                    = ledger.before.cash_available - ledger.amount
              /\ ledger.acct.cash_reserved = ledger.before.cash_reserved + ledger.amount
              /\ ledger.acct.positions = ledger.before.positions
        /\ ~ledger.ok => ledger.acct = ledger.before

\* C12 witness: a reserve of exactly what is available has succeeded on an
\* account that already held a reservation and a position.
C12_Witness ==
    /\ ledger.op = "reserve" /\ ledger.ok
    /\ ledger.amount = ledger.before.cash_available /\ ledger.amount > 0
    /\ ledger.before.cash_reserved > 0
    /\ \E k \in Keys : ledger.acct.positions[k] > 0

\* The ticks the last handled opportunity was derived from, as the book held
\* them: one of them was received more than max_stale_seconds before the call.
DerivedFromStaleTick ==
    /\ handled.called
    /\ \/ handled.at - handled.kalshi_received > MaxStaleSeconds
       \/ handled.at - handled.ibkr_received > MaxStaleSeconds

\* The last emission of the gate.
LastEmitted == emitted[Len(emitted)]

\* C13: an opportunity derived from a tick of either venue that was received
\* more than max_stale_seconds ago is rejected by the gate, which counts it in
\* opportunities_stale (by one) and emits nothing, whatever full ticks,
\* half-updates and rejected half-updates came before.
C13_StaleTickRejected ==
    DerivedFromStaleTick =>
        /\ handled.verdict = "stale"
        /\ stats.stale = handled.stats_before.stale + 1
        /\ Len(emitted) = handled.emitted_before

\* The largest q with q*(pA+pB) <= max_capital_per_market, both positions + q
\* <= max_contracts_per_event and q*p <= cash_available on each venue; 0 when
\* no positive q satisfies them.
LargestQuantity(cap, opp) ==
    LET fits(q) ==
            /\ q * (opp.kalshi_price + opp.ibkr_price) <= MaxCapitalPerMarket
            /\ cap["KALSHI"].positions[<<opp.symbol, opp.kalshi_side>>] + q
                  <= MaxContractsPerEvent
            /\ cap["IBKR"].positions[<<opp.symbol, opp.ibkr_side>>] + q
                  <= MaxContractsPerEvent
            /\ q * opp.kalshi_price <= cap["KALSHI"].cash_available
            /\ q * opp.ibkr_price <= cap["IBKR"].cash_available
        all == {q \in 1..MaxContractsPerEvent : fits(q)}
    IN IF all = {} THEN 0 ELSE CHOOSE q \in all : \A r \in all : r <= q

\* C14: for every opportunity that passes the staleness gate (prices in
\* [0.00, 1.00], summing to less than 1.00) the gate computes a quantity, and it
\* is the largest q satisfying the capital, position and cash constraints.
C14_QuantityIsLargestAllowed ==
    (handled.called /\ handled.verdict # "stale") =>
        /\ handled.verdict # "exception"
        /\ handled.max_qty = LargestQuantity(capital, handled.opp)

\* C15: the sized opportunity the gate emits carries the computed quantity q,
\* and total cost, gross profit, fees, slippage and net profit at q.
C15_EmittedCarriesQuantity ==
    (handled.called /\ handled.verdict = "valid") =>
        LET sized == LastEmitted.args[1]
            q == handled.max_qty
            pA == handled.opp.kalshi_price
            pB == handled.opp.ibkr_price
        IN /\ sized.quantity = q
           /\ sized.total_cost = q * (pA + pB)
           /\ sized.gross_profit = q * (100 - pA - pB)
           /\ sized.total_fees = TakerFee(pA, q) + IbkrFee(q)
           /\ sized.slippage_buffer = q * SlippageBufferCents
           /\ sized.net_profit
                 = sized.gross_profit - sized.total_fees - sized.slippage_buffer

\* C16: the gate emits (and counts in opportunities_valid) only with a computed
\* q >= 1 and a net profit at q that is strictly positive; an opportunity it
\* rejects for q <= 0 or net <= 0 creates no task (no execution, no log row) and
\* is not counted valid.
C16_EmitsOnlyProfitableSized ==
    /\ stats.valid = Len(emitted)
    /\ \A i \in 1..Len(emitted) : emitted[i].args[1].net_profit > 0
    /\ handled.called =>
          LET q == handled.max_qty
              net == q * (100 - handled.opp.kalshi_price - handled.opp.ibkr_price)
                       - TakerFee(handled.opp.kalshi_price, q) - IbkrFee(q)
                       - q * SlippageBufferCents
              emits == Len(emitted) = handled.emitted_before + 1
                         /\ stats.valid = handled.stats_before.valid + 1
              nothing == Len(emitted) = handled.emitted_before
                           /\ stats.valid = handled.stats_before.valid
          IN /\ emits \/ nothing
             /\ emits => (q >= 1 /\ net > 0 /\ LastEmitted.args[1].net_profit = net)
             /\ (handled.verdict # "exception" /\ (q <= 0 \/ net <= 0)) => nothing

\* C16 witness: with two contracts affordable, an opportunity whose net profit
\* at that quantity is exactly zero was rejected after an earlier one had been
\* emitted.
C16_Witness ==
    /\ handled.called /\ handled.verdict = "unprofitable"
    /\ handled.max_qty = 2
    /\ handled.opp.net_profit = 0
    /\ Len(emitted) = 1 /\ stats.valid = 1 /\ stats.detected = 2

\* The two pairings of the call, each checked on its own.
Pairing1 ==
    CheckOpportunity(detection.kalshi_tick.symbol, detection.kalshi_tick.yes_ask, "YES",
                     detection.ibkr_tick.no_ask, "NO", detection.min_profit)
Pairing2 ==
    CheckOpportunity(detection.kalshi_tick.symbol, detection.kalshi_tick.no_ask, "NO",
                     detection.ibkr_tick.yes_ask, "YES", detection.min_profit)
SameSymbol == detection.kalshi_tick.symbol = detection.ibkr_tick.symbol

\* C17: detect never returns a pairing whose two prices sum to 1.00 or more, and
\* returns nothing when both pairings do, whatever min_profit is.
C17_NoOpportunityAtParity ==
    detection.called =>
        LET r == detection.result
            sum1 == detection.kalshi_tick.yes_ask + detection.ibkr_tick.no_ask
            sum2 == detection.kalshi_tick.no_ask + detection.ibkr_tick.yes_ask
        IN /\ (r.found /\ r.kalshi_side = "YES") =>
                  (sum1 < 100 /\ r.kalshi_price + r.ibkr_price = sum1)
           /\ (r.found /\ r.kalshi_side = "NO") =>
                  (sum2 < 100 /\ r.kalshi_price + r.ibkr_price = sum2)
           /\ (sum1 >= 100 /\ sum2 >= 100) => ~r.found

\* C17 witness: both pairings cost exactly 1.00 and the net profit of each
\* (-0.04) is above a negative min_profit; detect has returned nothing.
C17_Witness ==
    /\ detection.called /\ SameSymbol
    /\ detection.kalshi_tick.yes_ask + detection.ibkr_tick.no_ask = 100
    /\ detection.kalshi_tick.no_ask + detection.ibkr_tick.yes_ask = 100
    /\ detection.kalshi_tick.yes_ask = 50 /\ detection.kalshi_tick.no_ask = 50
    /\ detection.min_profit < -4
    /\ ~detection.result.found

\* C18: when both pairings survive with equal net_profit, detect returns P1
\* (buy YES on Kalshi, buy NO on IBKR).
C18_TieGoesToP1 ==
    (detection.called /\ SameSymbol /\ Pairing1.found /\ Pairing2.found
       /\ Pairing1.net_profit = Pairing2.net_profit)
        => detection.result = Pairing1

UnroundedFee == KalshiFeeRatePct * fee_call.quantity * fee_call.price * (100 - fee_call.price)

\* C20: the taker fee of a price in 0.01..0.99 and a quantity >= 1 is the
\* smallest whole-cent amount not below rate * q * p * (1 - p), is no more than
\* the fee of one more contract at that price, and no more than the fee of the
\* same quantity at 0.50.
C20_FeeRoundedUpAndMonotone ==
    fee_call.called =>
        /\ fee_call.fee * 10000 >= UnroundedFee
        /\ (fee_call.fee - 1) * 10000 < UnroundedFee
        /\ fee_call.fee <= TakerFee(fee_call.price, fee_call.quantity + 1)
        /\ TakerFee(50, fee_call.quantity) >= fee_call.fee

\* C20 witness: three contracts at 0.99, whose unrounded fee is 0.002079, have
\* been charged 0.01, and four contracts at 0.99 are charged the same.
C20_Witness ==
    /\ fee_call.called
    /\ fee_call.price = 99 /\ fee_call.quantity = 3 /\ fee_call.fee = 1
    /\ fee_call.fee * 10000 > UnroundedFee
    /\ TakerFee(99, 4) = 1 /\ TakerFee(50, 3) > 1

\* No task is inside put or get.
Quiescent == \A t \in Tasks : proc[t].pc = "idle"

\* C21: under every overflow policy and at every point of every interleaving
\* of producers and consumers, the queue holds no more items than its capacity.
C21_SizeWithinCapacity ==
    /\ queue.max_size >= 1
    /\ Len(queue.items) <= queue.max_size

\* C21 witness: under DROP_OLDEST a put that had evicted the head found the
\* queue full again (another producer had filled it while the overflow callback
\* ran) and returned False; the queue is full.
C21_Witness ==
    /\ queue.policy = "DROP_OLDEST"
    /\ Len(queue.items) = queue.max_size
    /\ \E p \in Producers : proc[p].ret = "False"
    /\ qlog.rejected # {}

\* C22: whenever no put or get is in progress and every put made so far was
\* accepted (returned True), total_enqueued - total_dequeued - total_dropped
\* is the number of items in the queue.
C22_Conservation ==
    (Quiescent /\ qlog.rejected = {}) =>
        queue.total_enqueued - queue.total_dequeued - queue.total_dropped
            = Len(queue.items)

\* C22 witness: DROP_OLDEST, capacity 3, five puts: enqueued 5, dropped 2, size 3.
C22_Witness ==
    /\ Quiescent /\ qlog.rejected = {}
    /\ queue.policy = "DROP_OLDEST" /\ queue.max_size = 3
    /\ queue.total_enqueued = 5 /\ queue.total_dropped = 2 /\ queue.total_dequeued = 0
    /\ Len(queue.items) = 3

\* The place of an item in the order of acceptance (0 when it was not accepted).
AcceptedAt(item) ==
    IF \E i \in 1..Len(qlog.accepted) : qlog.accepted[i] = item
    THEN CHOOSE i \in 1..Len(qlog.accepted) : qlog.accepted[i] = item
    ELSE 0

\* C23: under every policy, the items get and get_nowait have returned were
\* all accepted, and were returned in the order in which they were accepted;
\* the items still held are in that order too, after every returned one.
C23_ReturnedInAcceptedOrder ==
    LET out == qlog.returned \o queue.items
    IN /\ \A i \in 1..Len(out) : AcceptedAt(out[i]) > 0
       /\ \A i \in 1..Len(out) : \A j \in 1..Len(out) :
              i < j => AcceptedAt(out[i]) < AcceptedAt(out[j])

\* C23 witness: under DROP_OLDEST two items were returned, with an item accepted
\* between them evicted.
C23_Witness ==
    /\ queue.policy = "DROP_OLDEST"
    /\ Len(qlog.returned) = 2
    /\ AcceptedAt(qlog.returned[2]) > AcceptedAt(qlog.returned[1]) + 1
    /\ queue.total_dropped >= 1

\* C24: under DROP_OLDEST every put returns True, and after n puts with no
\* consumer the queue holds the last min(n, capacity) items in put order with
\* total_dropped = max(0, n - capacity), whatever the overflow callback is and
\* however many producers there are.
C24_DropOldestKeepsNewest ==
    queue.policy = "DROP_OLDEST" =>
        /\ qlog.rejected = {}
        /\ \A p \in Producers : proc[p].ret # "False"
        /\ (Quiescent /\ queue.total_dequeued = 0) =>
              LET n == qlog.next_item - 1
                  k == Min2(n, queue.max_size)
              IN /\ queue.items = [i \in 1..k |-> n - k + i]
                 /\ queue.total_dropped = Max2(0, n - queue.max_size)

\* A step in which put is called: the item is qlog.next_item.
PutCalled == qlog'.next_item = qlog.next_item + 1

\* C25: a put on a full queue under DROP_NEWEST or RAISE leaves the items and
\* total_enqueued as they are and never has its item accepted; DROP_NEWEST adds
\* one to total_dropped and returns False, RAISE raises QueueFull.
C25_RejectedPutLeavesQueue ==
    [][/\ (PutCalled /\ Full(queue) /\ queue.policy = "DROP_NEWEST") =>
            /\ queue'.items = queue.items
            /\ queue'.total_enqueued = queue.total_enqueued
            /\ queue'.total_dropped = queue.total_dropped + 1
            /\ qlog'.accepted = qlog.accepted
            /\ \/ /\ qlog.next_item \in qlog'.rejected
                  /\ \E p \in Producers :
                        proc[p].pc = "idle" /\ proc'[p] = [IdleProc EXCEPT !.ret = "False"]
               \/ \E p \in Producers :
                     proc'[p].pc = "hook_newest" /\ proc'[p].item = qlog.next_item
       /\ \A p \in Producers : (proc[p].pc = "hook_newest" /\ proc'[p] # proc[p]) =>
            /\ queue' = queue
            /\ qlog'.accepted = qlog.accepted
            /\ proc[p].item \in qlog'.rejected
            /\ proc'[p] = [IdleProc EXCEPT !.ret = "False"]
       /\ (PutCalled /\ Full(queue) /\ queue.policy = "RAISE") =>
            /\ queue' = queue
            /\ qlog'.accepted = qlog.accepted
            /\ qlog.next_item \in qlog'.rejected
            /\ \E p \in Producers :
                  proc[p].pc = "idle" /\ proc'[p] = [IdleProc EXCEPT !.ret = "QueueFull"]
       /\ (queue.policy \in {"DROP_NEWEST", "RAISE"}) =>
            \A item \in qlog.rejected : AcceptedAt(item) = 0
      ]_vars

\* C25 witness: DROP_NEWEST, capacity 3: after puts 1, 2, 3 the put of 4 has
\* returned False; the queue holds 1, 2, 3 and total_dropped is 1.
C25_Witness ==
    /\ queue.policy = "DROP_NEWEST" /\ queue.max_size = 3
    /\ queue.items = <<1, 2, 3>>
    /\ qlog.rejected = {4}
    /\ queue.total_enqueued = 3 /\ queue.total_dropped = 1
    /\ \E p \in Producers : proc[p] = [IdleProc EXCEPT !.ret = "False"]

\* C29: under DROP_OLDEST, while a put has evicted the head and not yet added
\* its item (its overflow callback is running and the queue holds fewer than
\* capacity items), the next step of the program is that put's own.
C29_EvictionAtomicWithInsertion ==
    [][\A p \in Producers :
          (queue.policy = "DROP_OLDEST" /\ proc[p].pc = "hook_oldest"
             /\ Len(queue.items) < queue.max_size)
              => proc'[p] # proc[p]
      ]_vars

HedgeFilled(e) ==
    KalshiIsFilled(KalshiOrderView(venue[e].hReq.count, venue[e].hStatus, venue[e].hFill))

C28_ShutdownLetsExecutionsFinish ==
    ~running =>
        \A e \in Execs :
            /\ task[e].pc = "cancelled" => task[e].cancelled_at = "spawned"
            /\ ~Returned(e) => Holds(e, 0, 0)

\* The slot of a venue in a SymbolBook.
Slot(b, exchange) == IF exchange = "KALSHI" THEN b.kalshi ELSE b.ibkr

\* C30: after a call of update(tick) the slot of the tick's venue in the book of
\* tick.symbol holds the tick, the other venue's slot of that symbol and the
\* books of the other symbols are as before the call, and the detector was
\* called exactly if both slots of that symbol are now populated, on the two
\* ticks of that book, one of which is the tick just written.
C30_UpdateWritesOneSlotAndDetects ==
    book_call.called =>
        LET tick == book_call.tick
            now == books[tick.symbol]
        IN /\ Slot(now, tick.exchange) = tick
           /\ \A v \in Venues \ {tick.exchange} :
                 Slot(now, v) = Slot(book_call.before[tick.symbol], v)
           /\ \A s \in Symbols \ {tick.symbol} : books[s] = book_call.before[s]
           /\ book_call.detected <=> HasBoth(now)
           /\ book_call.detected =>
                 /\ book_call.pair = <<now.kalshi, now.ibkr>>
                 /\ tick \in {book_call.pair[1], book_call.pair[2]}
                 /\ book_call.opportunity = Detect(now.kalshi, now.ibkr, MinNetProfit)
           /\ ~book_call.detected => ~book_call.opportunity.found

\* C30 witness: an IBKR tick replaced an earlier IBKR tick of its symbol while
\* the other symbol has a book of its own, and the detector found an opportunity
\* on the pair.
C30_Witness ==
    /\ book_call.called /\ book_call.detected /\ book_call.opportunity.found
    /\ book_call.tick.exchange = "IBKR"
    /\ book_call.before[book_call.tick.symbol].ibkr # NoTick
    /\ \E s \in Symbols \ {book_call.tick.symbol} :
          books[s].kalshi # NoTick /\ books[s].ibkr = NoTick

\* The reference detector at unit quantity: gross and net of a pairing, whether
\* it survives, and the fields of the result that names it.
RefGross(pA, pB) == 100 - pA - pB
RefNet(pA, pB) == RefGross(pA, pB) - TakerFee(pA, 1) - IbkrFee(1) - SlippageBufferCents
RefSurvives(pA, pB, min_profit) == pA + pB < 100 /\ ~(RefNet(pA, pB) < min_profit)
IsPairing(r, side_A, pA, side_B, pB) ==
    /\ r.found
    /\ r.symbol = detection.kalshi_tick.symbol
    /\ r.kalshi_side = side_A /\ r.kalshi_price = pA
    /\ r.ibkr_side = side_B /\ r.ibkr_price = pB
    /\ r.gross_profit = RefGross(pA, pB)
    /\ r.net_profit = RefNet(pA, pB)

HookCalls(item) == Cardinality({i \in DOMAIN qlog.hooked : qlog.hooked[i] = item})

\* An item that was accepted and has left the queue without being returned by
\* a get: it was evicted.
Evicted(item) ==
    /\ \E i \in DOMAIN qlog.accepted : qlog.accepted[i] = item
    /\ \A i \in DOMAIN queue.items : queue.items[i] # item
    /\ \A i \in DOMAIN qlog.returned : qlog.returned[i] # item

\* C32: with an overflow callback set, every item evicted from the queue and
\* every item a put has returned False for (rejected under DROP_NEWEST, dropped
\* at a BLOCK deadline, or lost to the insertion race of DROP_OLDEST) has been
\* passed to the callback exactly once, and no item the callback was called with
\* is in the queue.
C32_HookGetsEveryDroppedItem ==
    (queue.overflow_callback # "none" /\ queue.policy # "RAISE") =>
        /\ \A item \in 1..(qlog.next_item - 1) :
              (Evicted(item) \/ item \in qlog.rejected) => HookCalls(item) = 1
        /\ \A i \in DOMAIN qlog.hooked, j \in DOMAIN queue.items :
              qlog.hooked[i] # queue.items[j]

\* C33: under DROP_OLDEST and DROP_NEWEST no put is ever where only the return
\* of an overflow callback can let it go on: awaiting the callback itself, or in
\* line for the lock that a put awaiting its callback holds.
C33_PutsDoNotWaitForHook ==
    queue.policy \in {"DROP_OLDEST", "DROP_NEWEST"} =>
        \A p \in Producers : proc[p].pc \notin {"hook_oldest", "hook_newest", "lock_wait"}

\* A step evicts the head of the queue: the head leaves without being returned
\* to a consumer.
EvictionStep ==
    /\ queue.items # <<>>
    /\ qlog'.returned = qlog.returned
    /\ \A i \in DOMAIN queue'.items : queue'.items[i] # Head(queue.items)

\* C39: under DROP_OLDEST every step that evicts an item starts from a queue
\* that holds max_size items.
C39_EvictsOnlyWhenFull ==
    [][(queue.policy = "DROP_OLDEST" /\ EvictionStep) => Len(queue.items) = queue.max_size]_vars

\* The ask of one half of a partial tick.
HalfAsk(partial, side) == IF side = "YES" THEN partial.yes_ask ELSE partial.no_ask
HalfSize(partial, side) == IF side = "YES" THEN partial.yes_ask_size ELSE partial.no_ask_size

\* C34: a message that carries an ask for one half of a symbol (a half-update)
\* sends a full tick of that symbol to the book exactly when both halves of the
\* symbol then have an ask, the tick carrying the two asks held; it leaves the
\* other half's ask and size, and the partial ticks of the other symbols, as
\* they were.
C34_TickEmittedIffBothHalves ==
    (ibkr_call.called /\ ibkr_call.ask # NoData) =>
        LET s == ibkr_call.symbol
            other == Opposite(ibkr_call.side)
        IN /\ ibkr_call.emitted # NoTick <=> IsComplete(partials[s])
           /\ ibkr_call.emitted # NoTick =>
                 /\ ibkr_call.emitted.symbol = s
                 /\ ibkr_call.emitted.yes_ask = partials[s].yes_ask
                 /\ ibkr_call.emitted.no_ask = partials[s].no_ask
           /\ HalfAsk(partials[s], other) = HalfAsk(ibkr_call.before[s], other)
           /\ HalfSize(partials[s], other) = HalfSize(ibkr_call.before[s], other)
           /\ \A x \in Symbols \ {s} : partials[x] = ibkr_call.before[x]

\* The contracts execution e has bought on `side` of its symbol at the venues:
\* the fills of leg A, leg B and the hedge order.
Bought(e, side) ==
    (IF task[e].kalshi_side = side THEN venue[e].kFill ELSE 0)
    + (IF IbkrSide(task[e]) = side THEN venue[e].iFill ELSE 0)
    + (IF venue[e].hReq.side = side THEN venue[e].hFill ELSE 0)

\* C35: after a terminal result without the manual-intervention marker the
\* execution has bought as many YES contracts as NO contracts of its symbol,
\* counting what leg A, leg B and the hedge order have filled at the venues.
C35_UnmarkedResultIsHedged ==
    \A e \in Execs :
        (Returned(e) /\ task[e].rollback_details # "manual") =>
            Bought(e, "YES") = Bought(e, "NO")

\* The contracts of (symbol, side) that execution e has bought at venue v.
FilledAt(e, v, symbol, side) ==
    IF task[e].symbol # symbol THEN 0
    ELSE IF v = "IBKR"
    THEN (IF IbkrSide(task[e]) = side THEN venue[e].iFill ELSE 0)
    ELSE (IF task[e].kalshi_side = side THEN venue[e].kFill ELSE 0)
         + (IF venue[e].hReq.side = side THEN venue[e].hFill ELSE 0)

RECURSIVE SumFilledAt(_, _, _, _)
SumFilledAt(es, v, symbol, side) ==
    IF es = {} THEN 0
    ELSE LET e == CHOOSE x \in es : TRUE
         IN FilledAt(e, v, symbol, side) + SumFilledAt(es \ {e}, v, symbol, side)

\* C36: when every execution that was started has returned its result, the
\* ledger position of each venue and (symbol, side), which started at zero, is
\* the number of contracts the executions have bought there, leg A fills that
\* were rolled back and hedge fills included.
C36_PositionsEqualFills ==
    (\A e \in Execs : task[e].pc \in {"idle", "returned"}) =>
        \A v \in Venues, k \in Keys :
            capital[v].positions[k] = SumFilledAt(Execs, v, k[1], k[2])

\* C37: no ledger position exceeds max_contracts_per_event.
C37_PositionWithinLimit ==
    \A v \in Venues, k \in Keys : capital[v].positions[k] <= MaxContractsPerEvent

\* C38: when execute has returned a failed or rolled-back result, neither the
\* leg-A order nor the leg-B order of the execution is open at its venue.
C38_NoOpenLegOrderAfterFailure ==
    \A e \in Execs :
        (Returned(e) /\ ~task[e].success) =>
            /\ ~(venue[e].kStatus = "resting")
            /\ ~IbkrIsOpen(venue[e].iStatus)

\* How many entries of `list` are `callback`.
Entries(list, callback) == Len(SelectSeq(list, LAMBDA cb : cb = callback))

\* C40 as stated: a publish that has returned has called every callback that
\* was subscribed to the channel at its call exactly once.
C40_EachSubscriberCalledOnce ==
    publisher.outcome = "returned" =>
        \A callback \in Callbacks :
            Entries(publisher.at_call, callback) > 0 =>
                Entries(publisher.delivered, callback) = 1

\* C40: a publish that has ended has called, in subscription order, the
\* entries of the channel's list at its call and then those appended to that
\* list while it awaited a callback: all of them when it returned, whatever
\* Exceptions the callbacks raised, and those up to the callback that raised a
\* non-Exception when that left publish; and no publish calls a callback that
\* was unsubscribed from the channel before it and not subscribed again.
C40_PublishCallsEverySubscription ==
    LET entries == publisher.at_call \o publisher.added
    IN /\ publisher.outcome = "returned" => publisher.delivered = entries
       /\ publisher.outcome = "propagated" =>
            /\ publisher.delivered # <<>>
            /\ publisher.delivered = SubSeq(entries, 1, Len(publisher.delivered))
            /\ CallbackKind(publisher.delivered[Len(publisher.delivered)]) = "escapes"
       /\ \A i \in 1..Len(publisher.delivered) :
            publisher.delivered[i] \notin publisher.barred

\* A publish has returned after a callback before the last raised an
\* Exception, another publish having been made after an unsubscribe.
C40_Witness ==
    /\ publisher.outcome = "returned"
    /\ Len(publisher.delivered) >= 2
    /\ CallbackKind(publisher.delivered[1]) = "raises"
    /\ publisher.barred # {}

====
